---- MODULE Spec2Model ----
(***************************************************************************)
(* A model of alexejk/go-xmlrpc: the transport Codec (codec.go), which     *)
(* correlates concurrent calls with their HTTP responses by sequence id    *)
(* and shuts down through an unbuffered channel, and the response decoder  *)
(* (decode.go).                                                            *)
(*                                                                         *)
(* Conventions.  Wire texts (the character data of <int>, <string>, ...)   *)
(* are sequences of one-character strings, so that strconv.Atoi and the    *)
(* boolean spellings are computed and not assumed.  Method names, fault    *)
(* messages and header values are never inspected by the code and stay     *)
(* TLA+ strings.  A formatted message is the record of its format and its  *)
(* arguments.  Go struct fields are numbered from 1 (Go's Field(i-1)).     *)
(***************************************************************************)
EXTENDS Integers, Sequences, FiniteSets, TLC

\* ------------------------------------------------------------------------
\* Bounds
\* ------------------------------------------------------------------------

\* Number of WriteRequest calls (one per sequence id).
NCalls == 2

\* Number of Close calls.
MaxCloses == 2

\* Longest target record and longest parameter list drawn for Decode.
MaxFields == 2

MaxParams == 2

\* ------------------------------------------------------------------------
\* Go values and errors
\* ------------------------------------------------------------------------

\* The nil error, and an error built by fmt.Errorf / errors.New: its format and
\* its arguments.
NoErr == [fmt |-> "", args |-> <<>>]

Errorf(f, a) == [fmt |-> f, args |-> a]

\* A Go value with its dynamic type t; only the slot of its type is used.
IntV(n) == [t |-> "int", i |-> n, s |-> <<>>, b |-> FALSE]

StringV(x) == [t |-> "string", i |-> 0, s |-> x, b |-> FALSE]

BoolV(x) == [t |-> "bool", i |-> 0, s |-> <<>>, b |-> x]

\* The nil interface value.
NilV == [t |-> "nil", i |-> 0, s |-> <<>>, b |-> FALSE]

\* The zero value of a field of kind k.
ZeroV(k) ==
  CASE k = "int" -> IntV(0)
    [] k = "string" -> StringV(<<>>)
    [] k = "bool" -> BoolV(FALSE)
    [] k = "float64" -> [t |-> "float64", i |-> 0, s |-> <<>>, b |-> FALSE]
    [] k = "uint8" -> [t |-> "uint8", i |-> 0, s |-> <<>>, b |-> FALSE]
    [] k = "bytes" -> [t |-> "bytes", isNil |-> TRUE, bytes |-> <<>>]
    [] k = "time" -> [t |-> "time", wall |-> <<1, 1, 1, 0, 0, 0>>, offset |-> 0, loc |-> "UTC"]
    [] OTHER -> NilV

\* ------------------------------------------------------------------------
\* decode.go: scalar decoders
\* ------------------------------------------------------------------------

DigitVal ==
  [c \in {"0", "1", "2", "3", "4", "5", "6", "7", "8", "9"} |->
     CASE c = "0" -> 0 [] c = "1" -> 1 [] c = "2" -> 2 [] c = "3" -> 3
       [] c = "4" -> 4 [] c = "5" -> 5 [] c = "6" -> 6 [] c = "7" -> 7
       [] c = "8" -> 8 [] c = "9" -> 9]

RECURSIVE DigitsValue(_)
DigitsValue(t) ==
  IF t = <<>> THEN 0
  ELSE 10 * DigitsValue(SubSeq(t, 1, Len(t) - 1)) + DigitVal[t[Len(t)]]

\* strconv.Atoi: an optional sign, then one or more decimal digits.
Atoi(t) ==
  LET signed == Len(t) > 0 /\ t[1] \in {"+", "-"}
      digits == IF signed THEN Tail(t) ELSE t
      ok     == Len(digits) > 0 /\ \A i \in 1..Len(digits) : digits[i] \in DOMAIN DigitVal
  IN  IF ~ok THEN [val |-> 0, err |-> Errorf("strconv.Atoi: parsing %q: invalid syntax", <<t>>)]
      ELSE [val |-> IF signed /\ t[1] = "-" THEN 0 - DigitsValue(digits) ELSE DigitsValue(digits),
            err |-> NoErr]

decodeInt(value) ==
  IF value = <<>> THEN [val |-> IntV(0), err |-> NoErr]
  ELSE LET r == Atoi(value) IN [val |-> IntV(r.val), err |-> r.err]

\* decodeBoolean taking every unrecognized text for false.
decodeBooleanLenient(value) ==
  IF value \in {<<"1">>, <<"t", "r", "u", "e">>, <<"T", "R", "U", "E">>, <<"T", "r", "u", "e">>}
  THEN [val |-> BoolV(TRUE), err |-> NoErr]
  ELSE [val |-> BoolV(FALSE), err |-> NoErr]

decodeBoolean(value) ==
  CASE value \in {<<"1">>, <<"t", "r", "u", "e">>, <<"T", "R", "U", "E">>, <<"T", "r", "u", "e">>}
         -> [val |-> BoolV(TRUE), err |-> NoErr]
    [] value \in {<<"0">>, <<"f", "a", "l", "s", "e">>, <<"F", "A", "L", "S", "E">>, <<"F", "a", "l", "s", "e">>}
         -> [val |-> BoolV(FALSE), err |-> NoErr]
    [] value = <<>>
         -> [val |-> BoolV(FALSE), err |-> NoErr]
    [] OTHER
         -> [val |-> BoolV(FALSE), err |-> Errorf("unrecognized value '%s' for boolean", <<value>>)]

\* A float64, held in millionths.
FloatV(n) == [t |-> "float64", i |-> n, s |-> <<>>, b |-> FALSE]

\* A []byte: nil, or the bytes it holds.
BytesV(isNil, bytes) == [t |-> "bytes", isNil |-> isNil, bytes |-> bytes]

\* A time.Time: wall clock <<year, month, day, hour, minute, second>>, the
\* offset from UTC in minutes and the kind of its location.
TimeV(wall, offset, loc) == [t |-> "time", wall |-> wall, offset |-> offset, loc |-> loc]

\* time.Time{}
ZeroTime == TimeV(<<1, 1, 1, 0, 0, 0>>, 0, "UTC")

IsDigits(t) == Len(t) > 0 /\ \A i \in 1..Len(t) : t[i] \in DOMAIN DigitVal

RECURSIVE Pow10(_)
Pow10(n) == IF n = 0 THEN 1 ELSE 10 * Pow10(n - 1)

\* strconv.ParseFloat on decimal texts: an optional sign, digits and an
\* optional fraction of up to six digits.
ParseFloat(t) ==
  LET signed == Len(t) > 0 /\ t[1] \in {"+", "-"}
      body   == IF signed THEN Tail(t) ELSE t
      dots   == {i \in 1..Len(body) : body[i] = "."}
      whole  == IF dots = {} THEN body ELSE SubSeq(body, 1, (CHOOSE i \in dots : TRUE) - 1)
      frac   == IF dots = {} THEN <<>> ELSE SubSeq(body, (CHOOSE i \in dots : TRUE) + 1, Len(body))
      ok     == /\ Cardinality(dots) <= 1
                /\ Len(whole) + Len(frac) > 0
                /\ Len(frac) <= 6
                /\ \A i \in 1..Len(whole) : whole[i] \in DOMAIN DigitVal
                /\ \A i \in 1..Len(frac) : frac[i] \in DOMAIN DigitVal
      n      == DigitsValue(whole) * 1000000 + DigitsValue(frac) * Pow10(6 - Len(frac))
  IN  IF ~ok THEN [val |-> 0, err |-> Errorf("strconv.ParseFloat: parsing %q: invalid syntax", <<t>>)]
      ELSE [val |-> IF signed /\ t[1] = "-" THEN 0 - n ELSE n, err |-> NoErr]

decodeDouble(value) ==
  IF value = <<>> THEN [val |-> FloatV(0), err |-> NoErr]
  ELSE LET r == ParseFloat(value) IN [val |-> FloatV(r.val), err |-> r.err]

\* The alphabet of base64.StdEncoding.
B64Alphabet ==
  <<"A", "B", "C", "D", "E", "F", "G", "H", "I", "J", "K", "L", "M", "N", "O", "P",
    "Q", "R", "S", "T", "U", "V", "W", "X", "Y", "Z", "a", "b", "c", "d", "e", "f",
    "g", "h", "i", "j", "k", "l", "m", "n", "o", "p", "q", "r", "s", "t", "u", "v",
    "w", "x", "y", "z", "0", "1", "2", "3", "4", "5", "6", "7", "8", "9", "+", "/">>

B64Index(c) == (CHOOSE i \in 1..Len(B64Alphabet) : B64Alphabet[i] = c) - 1

IsB64(c) == \E i \in 1..Len(B64Alphabet) : B64Alphabet[i] = c

\* The bytes of a padded base64 text whose length is a multiple of four.
RECURSIVE B64Groups(_)
B64Groups(t) ==
  IF t = <<>> THEN [ok |-> TRUE, bytes |-> <<>>]
  ELSE LET g    == SubSeq(t, 1, 4)
           rest == SubSeq(t, 5, Len(t))
           pad  == IF g[4] # "=" THEN 0 ELSE IF g[3] # "=" THEN 1 ELSE 2
           data == SubSeq(g, 1, 4 - pad)
           ok   == (pad = 0 \/ rest = <<>>) /\ \A i \in 1..Len(data) : IsB64(data[i])
           v    == [i \in 1..4 |-> IF i <= Len(data) /\ ok THEN B64Index(data[i]) ELSE 0]
           n    == v[1] * 262144 + v[2] * 4096 + v[3] * 64 + v[4]
           bs   == SubSeq(<<n \div 65536, (n \div 256) % 256, n % 256>>, 1, 3 - pad)
           r    == B64Groups(rest)
       IN  IF ok /\ r.ok THEN [ok |-> TRUE, bytes |-> bs \o r.bytes] ELSE [ok |-> FALSE, bytes |-> <<>>]

\* base64.StdEncoding.DecodeString: of the empty text it is an empty slice
\* that is not nil.
DecodeString(t) ==
  IF Len(t) % 4 = 0 /\ B64Groups(t).ok
  THEN [val |-> BytesV(FALSE, B64Groups(t).bytes), err |-> NoErr]
  ELSE [val |-> BytesV(TRUE, <<>>), err |-> Errorf("illegal base64 data at input byte %d", <<t>>)]

\* decodeBase64 without the test for the empty text.
decodeBase64NoEmpty(value) == DecodeString(value)

decodeBase64(value) ==
  IF value = <<>> THEN [val |-> BytesV(TRUE, <<>>), err |-> NoErr]
  ELSE DecodeString(value)

\* time.Parse(time.RFC3339, t) on texts without fractional seconds:
\* YYYY-MM-DDTHH:MM:SS followed by Z or by +HH:MM / -HH:MM.
ParseRFC3339(t) ==
  LET num(a, b) == DigitsValue(SubSeq(t, a, b))
      shape == /\ Len(t) \in {20, 25}
               /\ \A i \in {1, 2, 3, 4, 6, 7, 9, 10, 12, 13, 15, 16, 18, 19} : t[i] \in DOMAIN DigitVal
               /\ t[5] = "-" /\ t[8] = "-" /\ t[11] = "T" /\ t[14] = ":" /\ t[17] = ":"
               /\ IF Len(t) = 20 THEN t[20] = "Z"
                  ELSE /\ t[20] \in {"+", "-"}
                       /\ \A i \in {21, 22, 24, 25} : t[i] \in DOMAIN DigitVal
                       /\ t[23] = ":"
      ok    == /\ shape
               /\ num(6, 7) \in 1..12 /\ num(9, 10) \in 1..31
               /\ num(12, 13) < 24 /\ num(15, 16) < 60 /\ num(18, 19) < 60
               /\ Len(t) = 25 => (num(21, 22) < 24 /\ num(24, 25) < 60)
      off   == IF Len(t) = 20 THEN 0
               ELSE (IF t[20] = "-" THEN 0 - 1 ELSE 1) * (60 * num(21, 22) + num(24, 25))
  IN  IF ~ok THEN [val |-> ZeroTime, err |-> Errorf("parsing time %q: cannot parse", <<t>>)]
      ELSE [val |-> TimeV(<<num(1, 4), num(6, 7), num(9, 10), num(12, 13), num(15, 16), num(18, 19)>>,
                          off, IF Len(t) = 20 THEN "UTC" ELSE "fixed"),
            err |-> NoErr]

decodeDateTime(value) ==
  IF value = <<>> THEN [val |-> ZeroTime, err |-> NoErr]
  ELSE ParseRFC3339(value)

\* ------------------------------------------------------------------------
\* decode.go: member names and fields
\* ------------------------------------------------------------------------

LowerLetters ==
  <<"a", "b", "c", "d", "e", "f", "g", "h", "i", "j", "k", "l", "m",
    "n", "o", "p", "q", "r", "s", "t", "u", "v", "w", "x", "y", "z">>

UpperLetters ==
  <<"A", "B", "C", "D", "E", "F", "G", "H", "I", "J", "K", "L", "M",
    "N", "O", "P", "Q", "R", "S", "T", "U", "V", "W", "X", "Y", "Z">>

IsLower(c) == \E i \in 1..Len(LowerLetters) : LowerLetters[i] = c

IsUpper(c) == \E i \in 1..Len(UpperLetters) : UpperLetters[i] = c

\* strings.ToUpper of one lower-case letter.
ToUpper(c) == UpperLetters[CHOOSE i \in 1..Len(LowerLetters) : LowerLetters[i] = c]

IsSeparator(c) == c \in {"_", " ", "-", "."}

\* The loop of structMemberToFieldName from character i on, with the builder b.
RECURSIVE memberToFieldFrom(_, _, _, _)
memberToFieldFrom(name, i, capNext, b) ==
  IF i > Len(name) THEN b
  ELSE LET v == name[i]
           w == IF IsUpper(v) \/ v \in DOMAIN DigitVal THEN Append(b, v)
                ELSE IF IsLower(v) THEN Append(b, IF capNext THEN ToUpper(v) ELSE v)
                ELSE b
       IN  memberToFieldFrom(name, i + 1, IsSeparator(v), w)

\* structMemberToFieldName that does not capitalise the first letter.
structMemberToFieldNameLowerFirst(structName) == memberToFieldFrom(structName, 1, FALSE, <<>>)

structMemberToFieldName(structName) == memberToFieldFrom(structName, 1, TRUE, <<>>)

\* A struct field: its name, its xmlrpc tag (<<>> when it has none), whether
\* it is exported, and its type as a descriptor [kind, ...].
StructField(name, tag, exported, kind) == [name |-> name, tag |-> tag, exported |-> exported, kind |-> kind]

\* strings.Index(tagValue, ","): 0 when there is no comma.
CommaIndex(tag) ==
  IF \E i \in 1..Len(tag) : tag[i] = ","
  THEN CHOOSE i \in 1..Len(tag) : tag[i] = "," /\ \A j \in 1..(i - 1) : tag[j] # ","
  ELSE 0

getFieldNameFromTag(f) ==
  IF ~f.exported THEN <<>>
  ELSE IF f.tag = <<>> THEN <<>>
  ELSE IF CommaIndex(f.tag) # 0
    THEN LET head == SubSeq(f.tag, 1, CommaIndex(f.tag) - 1)
         IN  IF head = <<"-">> THEN <<>> ELSE head
  ELSE IF f.tag # <<"-">> THEN f.tag
  ELSE <<>>

\* reflect.Value.FieldByName: the index of the field of that name, 0 when
\* there is none.
FieldByName(type, fName) ==
  IF \E i \in 1..Len(type) : type[i].name = fName
  THEN CHOOSE i \in 1..Len(type) : type[i].name = fName
  ELSE 0

\* findFieldByNameOrTag returning the last field whose tag name is fName.
findFieldByNameOrTagLast(type, fName) ==
  IF \E i \in 1..Len(type) : getFieldNameFromTag(type[i]) = fName
  THEN CHOOSE i \in 1..Len(type) :
         /\ getFieldNameFromTag(type[i]) = fName
         /\ \A j \in (i + 1)..Len(type) : getFieldNameFromTag(type[j]) # fName
  ELSE FieldByName(type, fName)

\* findFieldByNameOrTag: the first field whose tag name is fName, else the
\* field named fName; 0 is the invalid Value.
findFieldByNameOrTag(type, fName) ==
  IF \E i \in 1..Len(type) : getFieldNameFromTag(type[i]) = fName
  THEN CHOOSE i \in 1..Len(type) :
         /\ getFieldNameFromTag(type[i]) = fName
         /\ \A j \in 1..(i - 1) : getFieldNameFromTag(type[j]) # fName
  ELSE FieldByName(type, fName)

\* ------------------------------------------------------------------------
\* decode.go: values, fields, Decode
\* ------------------------------------------------------------------------

\* A ResponseValue: one optional text per typed element (<<>> is a nil pointer,
\* <<t>> points to the text t) and the raw inner text.
Value(int, int4, boolean, string, raw) ==
  [Int |-> int, Int4 |-> int4, Double |-> <<>>, Boolean |-> boolean, String |-> string,
   Base64 |-> <<>>, DateTime |-> <<>>, Array |-> <<>>, Struct |-> <<>>, RawXML |-> raw]

NoValue == Value(<<>>, <<>>, <<>>, <<>>, <<>>)

DoubleValue(t) == [NoValue EXCEPT !.Double = <<t>>]

Base64Value(t) == [NoValue EXCEPT !.Base64 = <<t>>]

DateTimeValue(t) == [NoValue EXCEPT !.DateTime = <<t>>]

\* An array element with the given value elements (none: <data/>).
ArrayValue(values) == [NoValue EXCEPT !.Array = <<values>>]

\* A struct element with the given members.
Member(name, value) == [Name |-> name, Value |-> value]

StructValue(members) == [NoValue EXCEPT !.Struct = members]

IntValue(t) == Value(<<t>>, <<>>, <<>>, <<>>, <<>>)

Int4Value(t) == Value(<<>>, <<t>>, <<>>, <<>>, <<>>)

BooleanValue(t) == Value(<<>>, <<>>, <<t>>, <<>>, <<>>)

StringValue(t) == Value(<<>>, <<>>, <<>>, <<t>>, <<>>)

RawValue(t) == Value(<<>>, <<>>, <<>>, <<>>, t)

\* The printable ASCII characters, from the space (32) to the tilde (126); the
\* double quote, the backslash and the backtick are spelled out.
Printable ==
  <<" ", "!", "DQUOTE", "#", "$", "%", "&", "'", "(", ")", "*", "+",
    ",", "-", ".", "/", "0", "1", "2", "3", "4", "5", "6", "7",
    "8", "9", ":", ";", "<", "=", ">", "?", "@", "A", "B", "C",
    "D", "E", "F", "G", "H", "I", "J", "K", "L", "M", "N", "O",
    "P", "Q", "R", "S", "T", "U", "V", "W", "X", "Y", "Z", "[",
    "BACKSLASH", "]", "^", "_", "BACKTICK", "a", "b", "c", "d", "e", "f", "g",
    "h", "i", "j", "k", "l", "m", "n", "o", "p", "q", "r", "s",
    "t", "u", "v", "w", "x", "y", "z", "{", "|", "}", "~">>

\* The byte of a printable character, and the character of a byte.
Ord(c) == (CHOOSE i \in 1..Len(Printable) : Printable[i] = c) + 31

Chr(n) == IF n \in 32..126 THEN Printable[n - 31] ELSE "0x" \o ToString(n)

\* A byte.
Uint8V(n) == [t |-> "uint8", i |-> n % 256, s |-> <<>>, b |-> FALSE]

\* A slice other than []byte: nil, or its items.
SliceV(isNil, items) == [t |-> "slice", isNil |-> isNil, items |-> items]

\* A struct value: the values of its fields.
StructV(vals) == [t |-> "struct", vals |-> vals]

\* A map with string keys: nil, or its entries.
MapV(isNil, entries) == [t |-> "map", isNil |-> isNil, entries |-> entries]

NoEntries == [k \in {} |-> NilV]

\* The zero value of a field with descriptor f.
RECURSIVE ZeroOf(_)
ZeroOf(f) ==
  CASE f.kind = "struct" -> StructV([i \in 1..Len(f.fields) |-> ZeroOf(f.fields[i])])
    [] f.kind = "slice" -> SliceV(TRUE, <<>>)
    [] f.kind = "map" -> MapV(TRUE, NoEntries)
    [] OTHER -> ZeroV(f.kind)

NumericKinds == {"int", "float64", "uint8"}

\* reflect.Type.AssignableTo / ConvertibleTo from the dynamic type of a decoded
\* value to the kind of a field.
AssignableTo(t, kind) == kind = t \/ kind = "interface"

ConvertibleTo(t, kind) ==
  \/ AssignableTo(t, kind)
  \/ (t \in NumericKinds /\ kind \in NumericKinds)
  \/ (t \in {"int", "uint8"} /\ kind = "string")
  \/ (t = "string" /\ kind = "bytes")
  \/ (t = "bytes" /\ kind = "string")

\* The integer a numeric value converts to: a float64 is truncated toward zero.
IntOf(val) ==
  IF val.t # "float64" THEN val.i
  ELSE IF val.i >= 0 THEN val.i \div 1000000 ELSE 0 - ((0 - val.i) \div 1000000)

\* reflect.Value.Convert.  An integer converts to the string holding the
\* character with that code point.
Convert(val, kind) ==
  CASE val.t = kind \/ kind = "interface" -> val
    [] val.t \in {"int", "uint8"} /\ kind = "string" -> StringV(<<"U+" \o ToString(val.i)>>)
    [] val.t \in NumericKinds /\ kind = "int" -> IntV(IntOf(val))
    [] val.t \in NumericKinds /\ kind = "uint8" -> Uint8V(IntOf(val))
    [] val.t \in NumericKinds /\ kind = "float64" -> FloatV(val.i * 1000000)
    [] val.t = "string" /\ kind = "bytes" -> BytesV(FALSE, [i \in 1..Len(val.s) |-> Ord(val.s[i])])
    [] val.t = "bytes" /\ kind = "string" -> StringV([i \in 1..Len(val.bytes) |-> Chr(val.bytes[i])])
    [] OTHER -> val

\* The end of decodeValue: the decoded r = [val, err] is set on the field f
\* holding cur.  reflect.Value.Set panics on a field obtained through an
\* unexported struct field.
SetField(r, f, cur) ==
  IF r.err # NoErr THEN [status |-> "error", err |-> r.err, val |-> cur]
  ELSE IF AssignableTo(r.val.t, f.kind)
    THEN IF f.exported THEN [status |-> "ok", err |-> NoErr, val |-> r.val]
         ELSE [status |-> "panic", err |-> NoErr, val |-> cur]
  ELSE IF ~ConvertibleTo(r.val.t, f.kind)
    THEN [status |-> "error",
          err |-> Errorf("type '%s' cannot be assigned a value of type '%s'", <<f.kind, r.val.t>>),
          val |-> cur]
  ELSE IF f.exported THEN [status |-> "ok", err |-> NoErr, val |-> Convert(r.val, f.kind)]
  ELSE [status |-> "panic", err |-> NoErr, val |-> cur]

\* The element descriptor of a slice field, and the slice made of decoded items.
ElemOf(f) == IF f.kind = "bytes" THEN [exported |-> TRUE, kind |-> "uint8"] ELSE f.elem

MakeSlice(f, items) ==
  IF f.kind = "bytes" THEN BytesV(FALSE, [i \in 1..Len(items) |-> items[i].i]) ELSE SliceV(FALSE, items)

\* A StdDecoder.
StdDecoder(skipUnknownFields) == [skipUnknownFields |-> skipUnknownFields]

RECURSIVE decodeValue(_, _, _, _)
RECURSIVE decodeItems(_, _, _, _, _)
RECURSIVE decodeMembers(_, _, _, _)
RECURSIVE decodeMapMembers(_, _, _, _)

\* The array loop of decodeValue from value i on; items holds the decoded ones.
decodeItems(d, values, i, elem, items) ==
  IF i > Len(values) THEN [status |-> "ok", err |-> NoErr, items |-> items]
  ELSE LET r == decodeValue(d, values[i], elem, ZeroOf(elem))
       IN  IF r.status = "error"
             THEN [status |-> "error",
                   err |-> Errorf("failed decoding array item at index %d: %w", <<i - 1, r.err>>),
                   items |-> items]
           ELSE IF r.status = "panic" THEN [status |-> "panic", err |-> NoErr, items |-> items]
           ELSE decodeItems(d, values, i + 1, elem, Append(items, r.val))

\* decodeMembers leaving the loop at the first member it skips.
decodeMembersStopAtUnknown(d, members, f, cur) ==
  IF members = <<>> THEN [status |-> "ok", err |-> NoErr, val |-> cur]
  ELSE LET m     == Head(members)
           fName == structMemberToFieldName(m.Name)
           i     == findFieldByNameOrTag(f.fields, fName)
       IN  IF i = 0
             THEN IF d.skipUnknownFields THEN [status |-> "ok", err |-> NoErr, val |-> cur]
                  ELSE [status |-> "error", err |-> Errorf("cannot find field '%s' on struct", <<fName>>),
                        val |-> cur]
           ELSE LET r == decodeValue(d, m.Value, [f.fields[i] EXCEPT !.exported = @ /\ f.exported],
                                     cur.vals[i])
                    w == [cur EXCEPT !.vals[i] = r.val]
                IN  IF r.status = "error"
                      THEN [status |-> "error",
                            err |-> Errorf("failed decoding struct member '%s': %w", <<m.Name, r.err>>),
                            val |-> w]
                    ELSE IF r.status = "panic" THEN [status |-> "panic", err |-> NoErr, val |-> w]
                    ELSE decodeMembers(d, Tail(members), f, w)

\* The member loop of decodeValue on a struct field f holding cur.
decodeMembers(d, members, f, cur) ==
  IF members = <<>> THEN [status |-> "ok", err |-> NoErr, val |-> cur]
  ELSE LET m     == Head(members)
           fName == structMemberToFieldName(m.Name)
           i     == findFieldByNameOrTag(f.fields, fName)
       IN  IF i = 0
             THEN IF d.skipUnknownFields THEN decodeMembers(d, Tail(members), f, cur)
                  ELSE [status |-> "error", err |-> Errorf("cannot find field '%s' on struct", <<fName>>),
                        val |-> cur]
           ELSE LET r == decodeValue(d, m.Value, [f.fields[i] EXCEPT !.exported = @ /\ f.exported],
                                     cur.vals[i])
                    w == [cur EXCEPT !.vals[i] = r.val]
                IN  IF r.status = "error"
                      THEN [status |-> "error",
                            err |-> Errorf("failed decoding struct member '%s': %w", <<m.Name, r.err>>),
                            val |-> w]
                    ELSE IF r.status = "panic" THEN [status |-> "panic", err |-> NoErr, val |-> w]
                    ELSE decodeMembers(d, Tail(members), f, w)

\* The member loop of decodeValue on a map field f holding the non-nil cur.
decodeMapMembers(d, members, f, cur) ==
  IF members = <<>> THEN [status |-> "ok", err |-> NoErr, val |-> cur]
  ELSE LET m == Head(members)
           r == decodeValue(d, m.Value, f.elem, ZeroOf(f.elem))
           w == [cur EXCEPT !.entries =
                   [k \in DOMAIN cur.entries \cup {m.Name} |-> IF k = m.Name THEN r.val ELSE cur.entries[k]]]
       IN  IF r.status = "error"
             THEN [status |-> "error",
                   err |-> Errorf("failed decoding struct member '%s': %w", <<m.Name, r.err>>),
                   val |-> cur]
           ELSE IF r.status = "panic" THEN [status |-> "panic", err |-> NoErr, val |-> cur]
           ELSE decodeMapMembers(d, Tail(members), f, w)

\* decodeValue of the decoder d on a value and a non-pointer field f holding
\* cur: the status, the error and what the field holds afterwards.
decodeValue(d, value, f, cur) ==
  IF value.Int # <<>> THEN SetField(decodeInt(value.Int[1]), f, cur)
  ELSE IF value.Int4 # <<>> THEN SetField(decodeInt(value.Int4[1]), f, cur)
  ELSE IF value.Double # <<>> THEN SetField(decodeDouble(value.Double[1]), f, cur)
  ELSE IF value.Boolean # <<>> THEN SetField(decodeBoolean(value.Boolean[1]), f, cur)
  ELSE IF value.String # <<>> THEN SetField([val |-> StringV(value.String[1]), err |-> NoErr], f, cur)
  ELSE IF value.Base64 # <<>> THEN SetField(decodeBase64(value.Base64[1]), f, cur)
  ELSE IF value.DateTime # <<>> THEN SetField(decodeDateTime(value.DateTime[1]), f, cur)
  ELSE IF value.Array # <<>>
    THEN IF f.kind \notin {"slice", "bytes"}
           THEN [status |-> "error",
                 err |-> Errorf("invalid field type: expected '%s', got '%s'", <<"slice", f.kind>>),
                 val |-> cur]
         ELSE IF Len(value.Array[1]) = 0 THEN [status |-> "ok", err |-> NoErr, val |-> cur]
         ELSE LET r == decodeItems(d, value.Array[1], 1, ElemOf(f), <<>>)
              IN  IF r.status # "ok" THEN [status |-> r.status, err |-> r.err, val |-> cur]
                  ELSE SetField([val |-> MakeSlice(f, r.items), err |-> NoErr],
                                [f EXCEPT !.kind = MakeSlice(f, r.items).t], cur)
  ELSE IF Len(value.Struct) # 0
    THEN IF f.kind \notin {"struct", "map"}
           THEN [status |-> "error",
                 err |-> Errorf("invalid field type: expected '%s' or '%s', got '%s'",
                                <<"struct", "map", f.kind>>),
                 val |-> cur]
         ELSE IF f.kind = "struct" THEN decodeMembers(d, value.Struct, f, cur)
         ELSE IF f.key # "string"
           THEN [status |-> "error",
                 err |-> Errorf("invalid map key type: must be 'string' when decoding structs into a map, got '%s'",
                                <<f.key>>),
                 val |-> cur]
         ELSE IF ~f.exported THEN [status |-> "panic", err |-> NoErr, val |-> cur]
         ELSE decodeMapMembers(d, value.Struct, f, [cur EXCEPT !.isNil = FALSE])
  ELSE SetField([val |-> StringV(value.RawXML), err |-> NoErr], f, cur)

\* The number of fields of v that CanInterface, i.e. the exported ones.
NumExported(type) == Cardinality({i \in 1..Len(type) : type[i].exported})

\* fieldsMustEqual counting every field, exported or not.
fieldsMustEqualAll(v, expectation) ==
  IF Len(v.type) # expectation
  THEN Errorf("number of exported fields (%d) on response type doesnt match expectation (%d)",
              <<Len(v.type), expectation>>)
  ELSE NoErr

fieldsMustEqual(v, expectation) ==
  IF NumExported(v.type) # expectation
  THEN Errorf("number of exported fields (%d) on response type doesnt match expectation (%d)",
              <<NumExported(v.type), expectation>>)
  ELSE NoErr

\* The loop of Decode from parameter i on: parameter i goes to vElem.Field(i).
RECURSIVE DecodeParams(_, _, _, _)
DecodeParams(d, params, i, v) ==
  IF i > Len(params) THEN [status |-> "ok", err |-> NoErr, v |-> v]
  ELSE LET r == decodeValue(d, params[i], v.type[i], v.vals[i])
           w == [v EXCEPT !.vals[i] = r.val]
       IN  IF r.status # "ok" THEN [status |-> r.status, err |-> r.err, v |-> w]
           ELSE DecodeParams(d, params, i + 1, w)

\* StdDecoder.Decode(response, v), v a pointer to the record [type, vals].
Decode(d, resp, v) ==
  IF fieldsMustEqual(v, Len(resp.Params)) # NoErr
  THEN [status |-> "error", err |-> fieldsMustEqual(v, Len(resp.Params)), v |-> v]
  ELSE DecodeParams(d, resp.Params, 1, v)

\* decodeFault: the Fault of a fault struct, given as its member list.  A
\* failed Atoi leaves the code 0; a later member of the same name wins.
RECURSIVE decodeFaultFrom(_, _)
decodeFaultFrom(members, f) ==
  IF members = <<>> THEN f
  ELSE LET m == Head(members)
           g == CASE m.Name = "faultCode" ->
                       [f EXCEPT !.Code = IF m.Value.Int # <<>> THEN Atoi(m.Value.Int[1]).val
                                          ELSE IF m.Value.Int4 # <<>> THEN Atoi(m.Value.Int4[1]).val
                                          ELSE 0]
                  [] m.Name = "faultString" ->
                       IF m.Value.String # <<>> THEN [f EXCEPT !.String = m.Value.String[1]] ELSE f
                  [] OTHER -> f
       IN  decodeFaultFrom(Tail(members), g)

decodeFault(fault) == decodeFaultFrom(fault, [Code |-> 0, String |-> <<>>])

\* StdDecoder.DecodeFault: <<>> (nil) when the response has no fault.
DecodeFault(resp) == IF resp.Fault = <<>> THEN <<>> ELSE <<decodeFault(resp.Fault[1])>>

\* Fault.Error
FaultError(f) == Errorf("%d: %s", <<f.Code, f.String>>)

\* ------------------------------------------------------------------------
\* The response parser
\* ------------------------------------------------------------------------

\* A response document: whether it is well-formed markup, and its optional
\* params and fault elements.
Document(wellFormed, params, fault) == [wellFormed |-> wellFormed, params |-> params, fault |-> fault]

\* NewResponse without the check of the two branches.
NewResponseUnchecked(doc) ==
  IF ~doc.wellFormed THEN [err |-> Errorf("XML syntax error", <<>>), resp |-> <<>>]
  ELSE [err |-> NoErr,
        resp |-> <<[Params |-> IF doc.params = <<>> THEN <<>> ELSE doc.params[1], Fault |-> doc.fault]>>]

\* NewResponse(body): a Response with exactly one of Params and Fault, or an
\* error.
NewResponse(doc) ==
  IF ~doc.wellFormed THEN [err |-> Errorf("XML syntax error", <<>>), resp |-> <<>>]
  ELSE IF (doc.params = <<>>) = (doc.fault = <<>>)
    THEN [err |-> Errorf("invalid response", <<>>), resp |-> <<>>]
  ELSE [err |-> NoErr,
        resp |-> <<[Params |-> IF doc.params = <<>> THEN <<>> ELSE doc.params[1], Fault |-> doc.fault]>>]

\* ------------------------------------------------------------------------
\* codec.go: inputs
\* ------------------------------------------------------------------------

defaultUserAgent == "alexejk.io/go-xmlrpc"

Seqs == 1..NCalls

\* The method each call names: calls differ in their method, as in the tests'
\* Bugzilla.version.%d.
MethodOf(w) == IF w % 2 = 1 THEN "my.simple" ELSE "my.fault"

\* The decimal text of a sequence id below ten, as a stub server echoes it.
SeqText(w) == <<CHOOSE c \in DOMAIN DigitVal : DigitVal[c] = w % 10>>

\* The length of the payload of a call of method m without arguments: the 50
\* bytes of markup around the method name (61 for "test.Method").
EncodedLen(m) == CASE m = "my.simple" -> 59 [] m = "my.fault" -> 58

\* What the encoder gives the WriteRequest of call w: an error, or a payload
\* of len bytes.
EncodeResults(w) == {[err |-> Errorf("unsupported argument type", <<>>), len |-> 0],
                     [err |-> NoErr, len |-> EncodedLen(MethodOf(w))]}

\* User agents and header overrides a client is built with (options.go).
UserAgents == {defaultUserAgent, ""}

NoHeaders == [k \in {} |-> ""]

CustomHeaderChoices ==
  {NoHeaders,
   [k \in {"Content-Type", "X-Header"} |-> IF k = "X-Header" THEN "my-value" ELSE "text/xml+custom"],
   [k \in {"Content-Length", "User-Agent"} |-> IF k = "User-Agent" THEN "custom-agent" ELSE "999999"],
   [k \in {"content-length", "content-type", "Content-Type"} |->
      CASE k = "content-length" -> "1" [] k = "content-type" -> "text/plain" [] OTHER -> "text/xml+custom"]}

\* Response documents a server sends.
TooMany == <<"T", "o", "o">>

FaultDoc ==
  Document(TRUE, <<>>, <<<<[Name |-> "faultCode", Value |-> IntValue(<<"4">>)],
                           [Name |-> "faultString", Value |-> StringValue(TooMany)]>>>>)

ParamsDoc(t) == Document(TRUE, <<<<IntValue(t)>>>>, <<>>)

MalformedDoc == Document(FALSE, <<>>, <<>>)

HTTPResponse(status, readErr, doc) == [StatusCode |-> status, Body |-> [readErr |-> readErr, doc |-> doc]]

NoResponse == HTTPResponse(0, FALSE, MalformedDoc)

\* What httpClient.Do gives the WriteRequest of call w: an error, or a
\* response; a params document echoes the sequence id.
HTTPResults(w) ==
  {[err |-> Errorf("connection refused", <<>>), res |-> NoResponse]}
  \cup {[err |-> NoErr, res |-> r] :
          r \in {HTTPResponse(300, FALSE, ParamsDoc(SeqText(w))),
                 HTTPResponse(200, TRUE, ParamsDoc(SeqText(w))),
                 HTTPResponse(200, FALSE, MalformedDoc),
                 HTTPResponse(299, FALSE, FaultDoc),
                 HTTPResponse(200, FALSE, ParamsDoc(SeqText(w)))}}

\* Targets handed to ReadResponseBody: nil, or a pointer to a record.
Field(exported, kind) == [exported |-> exported, kind |-> kind]

Record(type) == [type |-> type, vals |-> [i \in 1..Len(type) |-> ZeroOf(type[i])]]

BodyTargets == {<<>>, <<Record(<<Field(TRUE, "int")>>)>>}

\* ------------------------------------------------------------------------
\* codec.go: request headers
\* ------------------------------------------------------------------------

\* The canonical form http.Header.Set stores a key under.
CanonicalKey(k) ==
  CASE k = "content-length" -> "Content-Length"
    [] k = "content-type" -> "Content-Type"
    [] OTHER -> k

HeaderSet(h, key, value) ==
  [x \in DOMAIN h \cup {CanonicalKey(key)} |-> IF x = CanonicalKey(key) THEN value ELSE h[x]]

\* The loop over customHeaders, in the iteration order `order`.
RECURSIVE ApplyCustom(_, _, _)
ApplyCustom(h, custom, order) ==
  IF order = <<>> THEN h
  ELSE ApplyCustom(HeaderSet(h, Head(order), custom[Head(order)]), custom, Tail(order))

\* RequestHeader with Content-Length set before the caller's headers.
RequestHeaderLengthFirst(ua, custom, order, bodyLen) ==
  ApplyCustom(HeaderSet(HeaderSet(HeaderSet(NoHeaders, "Content-Type", "text/xml"), "User-Agent", ua),
                        "Content-Length", ToString(bodyLen)),
              custom, order)

\* The header of the request WriteRequest sends.
RequestHeader(ua, custom, order, bodyLen) ==
  HeaderSet(ApplyCustom(HeaderSet(HeaderSet(NoHeaders, "Content-Type", "text/xml"), "User-Agent", ua),
                        custom, order),
            "Content-Length", ToString(bodyLen))

\* The orders in which a map with key set K can be ranged over.
RangeOrders(K) ==
  {o \in [1..Cardinality(K) -> K] : \A i, j \in 1..Cardinality(K) : o[i] = o[j] => i = j}

\* ------------------------------------------------------------------------
\* codec.go: ReadResponseHeader after the pending entry was taken
\* ------------------------------------------------------------------------

\* BadStatus with the upper limit off by one.
BadStatusOffByOne(code) == code < 200 \/ code > 300

\* The 2xx test of ReadResponseHeader.
BadStatus(code) == code < 200 \/ code >= 300

\* HeaderOutcome without the DecodeFault check.
HeaderOutcomeNoFault(call, cur) ==
  LET r == call.httpResponse
      p == NewResponse(r.Body.doc)
  IN  IF BadStatus(r.StatusCode)
        THEN [Error |-> Errorf("bad response code: %d", <<r.StatusCode>>), response |-> cur, read |-> FALSE]
      ELSE IF r.Body.readErr
        THEN [Error |-> Errorf("unexpected EOF", <<>>), response |-> cur, read |-> TRUE]
      ELSE IF p.err # NoErr
        THEN [Error |-> p.err, response |-> cur, read |-> TRUE]
      ELSE [Error |-> NoErr, response |-> p.resp, read |-> TRUE]

\* From the status check on: the Error of the header, the in-flight response
\* and whether the body was read, for the call taken from the pending table
\* and the current in-flight response cur.
HeaderOutcome(call, cur) ==
  LET r == call.httpResponse
      p == NewResponse(r.Body.doc)
  IN  IF BadStatus(r.StatusCode)
        THEN [Error |-> Errorf("bad response code: %d", <<r.StatusCode>>), response |-> cur, read |-> FALSE]
      ELSE IF r.Body.readErr
        THEN [Error |-> Errorf("unexpected EOF", <<>>), response |-> cur, read |-> TRUE]
      ELSE IF p.err # NoErr
        THEN [Error |-> p.err, response |-> cur, read |-> TRUE]
      ELSE IF DecodeFault(p.resp[1]) # <<>>
        THEN [Error |-> FaultError(DecodeFault(p.resp[1])[1]), response |-> cur, read |-> TRUE]
      ELSE [Error |-> NoErr, response |-> p.resp, read |-> TRUE]

\* ------------------------------------------------------------------------
\* State
\* ------------------------------------------------------------------------

VARIABLES
  customHeaders,  \* Codec.customHeaders
  userAgent,      \* Codec.userAgent
  mutex,          \* Codec.mutex: 0 free, w held by WriteRequest w, ReaderId by the reader
  pending,        \* Codec.pending: sequence id -> rpcCall
  response,       \* Codec.response: <<>> (nil) or <<Response>>
  wpc,            \* position of each WriteRequest call
  wreq,           \* its rpc.Request
  whttp,          \* what c.httpClient.Do gave it: httpResponse and err
  wret,           \* the error it returned
  wire,           \* the header of the request it sent
  rdpc,           \* position of the reader
  rseq,           \* seq received from Codec.ready
  rcall,          \* call taken from the pending table
  resp,           \* the rpc.Response ReadResponseHeader fills in
  rerr,           \* the error the last ReadResponseHeader returned
  rrb,            \* the last ReadResponseBody: its target, before and after, and its error
  bodies,         \* state of each call's HTTP response body
  closing,        \* number of Close calls blocked on sending to Codec.shutdown
  closed,         \* number of Close calls that returned
  dec             \* a Decode call on its own: position, response, target, result

codecVars == <<customHeaders, userAgent, mutex, pending, response>>

writerVars == <<wpc, wreq, whttp, wret, wire>>

readerVars == <<rdpc, rseq, rcall, resp, rerr, rrb>>

vars == <<codecVars, writerVars, readerVars, bodies, closing, closed, dec>>

ReaderId == 0 - 1

ErrClosed == Errorf("use of closed network connection", <<>>)

NoCall == [Seq |-> 0, ServiceMethod |-> "", httpResponse |-> NoResponse]

ZeroResp == [Seq |-> 0, ServiceMethod |-> "", Error |-> NoErr]

NoBody == [called |-> FALSE, v |-> <<>>, out |-> <<>>, status |-> "ok", err |-> NoErr]

DecIdle == [pc |-> "idle", resp |-> [Params |-> <<>>, Fault |-> <<>>], v |-> Record(<<>>),
            out |-> [status |-> "ok", err |-> NoErr, v |-> Record(<<>>)]]

\* NewCodec, apart from customHeaders and userAgent.
CodecInit ==
  /\ mutex = 0
  /\ pending = [s \in {} |-> NoCall]
  /\ response = <<>>
  /\ wpc = [w \in Seqs |-> "idle"]
  /\ wreq = [w \in Seqs |-> [Seq |-> w, ServiceMethod |-> ""]]
  /\ whttp = [w \in Seqs |-> [err |-> NoErr, res |-> NoResponse]]
  /\ wret = [w \in Seqs |-> NoErr]
  /\ wire = [w \in Seqs |-> NoHeaders]
  /\ rdpc = "idle"
  /\ rseq = 0
  /\ rcall = NoCall
  /\ resp = ZeroResp
  /\ rerr = NoErr
  /\ rrb = NoBody
  /\ bodies = [w \in Seqs |-> "none"]
  /\ closing = 0
  /\ closed = 0

\* NewCodec
Init ==
  /\ customHeaders = NoHeaders
  /\ userAgent = defaultUserAgent
  /\ CodecInit
  /\ dec = DecIdle

\* ------------------------------------------------------------------------
\* Codec.WriteRequest
\* ------------------------------------------------------------------------

\* Entry to c.httpClient.Do: encode, build the request and its header.
WriteRequest(w) ==
  /\ wpc[w] = "idle"
  /\ \E e \in EncodeResults(w), order \in RangeOrders(DOMAIN customHeaders) :
       /\ wreq' = [wreq EXCEPT ![w] = [Seq |-> w, ServiceMethod |-> MethodOf(w)]]
       /\ IF e.err # NoErr
            THEN /\ wpc' = [wpc EXCEPT ![w] = "returned"]
                 /\ wret' = [wret EXCEPT ![w] = e.err]
                 /\ wire' = wire
            ELSE /\ wpc' = [wpc EXCEPT ![w] = "http"]
                 /\ wret' = wret
                 /\ wire' = [wire EXCEPT ![w] = RequestHeader(userAgent, customHeaders, order, e.len)]
  /\ UNCHANGED <<codecVars, whttp, readerVars, bodies, closing, closed, dec>>

\* AfterDo recording a failed exchange instead of returning its error.
AfterDoRecord(d) == [pc |-> "lock", ret |-> NoErr]

\* What WriteRequest does with the result d of c.httpClient.Do: return the
\* error, or go on to record the call.
AfterDo(d) == IF d.err # NoErr THEN [pc |-> "returned", ret |-> d.err] ELSE [pc |-> "lock", ret |-> NoErr]

\* c.httpClient.Do returns one of results.
HTTPDoneWith(w, results) ==
  /\ wpc[w] = "http"
  /\ \E d \in results :
       /\ wpc' = [wpc EXCEPT ![w] = AfterDo(d).pc]
       /\ wret' = [wret EXCEPT ![w] = AfterDo(d).ret]
       /\ whttp' = [whttp EXCEPT ![w] = d]
       /\ bodies' = [bodies EXCEPT ![w] = IF d.err = NoErr THEN "open" ELSE "none"]
  /\ UNCHANGED <<codecVars, wreq, wire, readerVars, closing, closed, dec>>

HTTPDone(w) == HTTPDoneWith(w, HTTPResults(w))

\* c.mutex.Lock()
WriterLock(w) ==
  /\ wpc[w] = "lock"
  /\ mutex = 0
  /\ mutex' = w
  /\ wpc' = [wpc EXCEPT ![w] = "commit"]
  /\ UNCHANGED <<customHeaders, userAgent, pending, response, wreq, whttp, wret, wire,
                 readerVars, bodies, closing, closed, dec>>

\* The key and the entry WriteRequest stores for request req and httpResponse.
PendingEntry(req, httpResponse) ==
  [key |-> req.Seq,
   call |-> [Seq |-> req.Seq, ServiceMethod |-> req.ServiceMethod, httpResponse |-> httpResponse]]

\* WriterCommit going on to post the signal without storing the entry.
WriterCommitNoStore(w) ==
  /\ wpc[w] = "commit"
  /\ mutex = w
  /\ mutex' = 0
  /\ wpc' = [wpc EXCEPT ![w] = "post"]
  /\ UNCHANGED <<customHeaders, userAgent, pending, response, wreq, whttp, wret, wire,
                 readerVars, bodies, closing, closed, dec>>

\* c.pending[req.Seq] = &rpcCall{...}; c.mutex.Unlock()
WriterCommit(w) ==
  /\ wpc[w] = "commit"
  /\ mutex = w
  /\ LET e == PendingEntry(wreq[w], whttp[w].res)
     IN  pending' = [s \in DOMAIN pending \cup {e.key} |-> IF s = e.key THEN e.call ELSE pending[s]]
  /\ mutex' = 0
  /\ wpc' = [wpc EXCEPT ![w] = "post"]
  /\ UNCHANGED <<customHeaders, userAgent, response, wreq, whttp, wret, wire,
                 readerVars, bodies, closing, closed, dec>>

\* WriterPost as a send that does not block: without a reader parked in the
\* select the signal is dropped and WriteRequest returns.
WriterPostNonBlocking(w) ==
  /\ wpc[w] = "post"
  /\ wpc' = [wpc EXCEPT ![w] = "returned"]
  /\ IF rdpc = "select"
       THEN /\ rdpc' = "recv"
            /\ rseq' = wreq[w].Seq
       ELSE UNCHANGED <<rdpc, rseq>>
  /\ UNCHANGED <<codecVars, wreq, whttp, wret, wire, rcall, resp, rerr, rrb, bodies, closing, closed, dec>>

\* c.ready <- req.Seq.  The channel is unbuffered: a reader parked in the
\* select takes the value at once, otherwise the sender blocks.
WriterPost(w) ==
  /\ wpc[w] = "post"
  /\ IF rdpc = "select"
       THEN /\ rdpc' = "recv"
            /\ rseq' = wreq[w].Seq
            /\ wpc' = [wpc EXCEPT ![w] = "returned"]
       ELSE /\ wpc' = [wpc EXCEPT ![w] = "blocked"]
            /\ UNCHANGED <<rdpc, rseq>>
  /\ UNCHANGED <<codecVars, wreq, whttp, wret, wire, rcall, resp, rerr, rrb, bodies, closing, closed, dec>>

\* ------------------------------------------------------------------------
\* Codec.ReadResponseHeader
\* ------------------------------------------------------------------------

BlockedWriters == {w \in Seqs : wpc[w] = "blocked"}

\* Entry to the select: with senders blocked on ready or shutdown one of them
\* is chosen, otherwise the reader parks.
ReadResponseHeader ==
  /\ rdpc = "idle"
  /\ resp' = ZeroResp
  /\ rrb' = NoBody
  /\ \/ /\ BlockedWriters = {} /\ closing = 0
        /\ rdpc' = "select"
        /\ UNCHANGED <<rseq, wpc, closing, closed>>
     \/ \E w \in BlockedWriters :
          /\ rdpc' = "recv"
          /\ rseq' = wreq[w].Seq
          /\ wpc' = [wpc EXCEPT ![w] = "returned"]
          /\ UNCHANGED <<closing, closed>>
     \/ /\ closing > 0
        /\ rdpc' = "shutdown"
        /\ closing' = closing - 1
        /\ closed' = closed + 1
        /\ UNCHANGED <<rseq, wpc>>
  /\ UNCHANGED <<codecVars, wreq, whttp, wret, wire, rcall, rerr, bodies, dec>>

\* case seq := <-c.ready: c.mutex.Lock()
ReaderLock ==
  /\ rdpc = "recv"
  /\ mutex = 0
  /\ mutex' = ReaderId
  /\ rdpc' = "locked"
  /\ UNCHANGED <<customHeaders, userAgent, pending, response, writerVars,
                 rseq, rcall, resp, rerr, rrb, bodies, closing, closed, dec>>

\* LookupKey taking the oldest pending entry, whatever seq was received.
LookupKeyOldest(seq) == CHOOSE s \in DOMAIN pending : \A t \in DOMAIN pending : s <= t

\* The key ReadResponseHeader looks up for the received seq.
LookupKey(seq) == seq

\* ReaderTake without the delete.
ReaderTakeNoDelete ==
  /\ rdpc = "locked"
  /\ mutex = ReaderId
  /\ IF LookupKey(rseq) \in DOMAIN pending
       THEN /\ rcall' = pending[LookupKey(rseq)]
            /\ rdpc' = "process"
       ELSE /\ rcall' = NoCall
            /\ rdpc' = "panic"
  /\ mutex' = 0
  /\ UNCHANGED <<customHeaders, userAgent, pending, response, writerVars, rseq, resp, rerr, rrb,
                 bodies, closing, closed, dec>>

\* call := c.pending[seq]; delete(c.pending, seq); c.mutex.Unlock().  A missing
\* entry gives a nil call, and resp.Seq = call.Seq panics.
ReaderTake ==
  /\ rdpc = "locked"
  /\ mutex = ReaderId
  /\ IF LookupKey(rseq) \in DOMAIN pending
       THEN /\ rcall' = pending[LookupKey(rseq)]
            /\ rdpc' = "process"
       ELSE /\ rcall' = NoCall
            /\ rdpc' = "panic"
  /\ pending' = [s \in DOMAIN pending \ {LookupKey(rseq)} |-> pending[s]]
  /\ mutex' = 0
  /\ UNCHANGED <<customHeaders, userAgent, response, writerVars, rseq, resp, rerr, rrb,
                 bodies, closing, closed, dec>>

\* ReaderProcess with the deferred r.Body.Close() placed after the reading
\* of the body: the paths that return earlier leave the body open.
ReaderProcessDeferLate ==
  /\ rdpc = "process"
  /\ resp' = [Seq |-> rcall.Seq, ServiceMethod |-> rcall.ServiceMethod,
              Error |-> HeaderOutcome(rcall, response).Error]
  /\ response' = HeaderOutcome(rcall, response).response
  /\ bodies' = [bodies EXCEPT ![rcall.Seq] =
                  IF HeaderOutcome(rcall, response).read /\ ~rcall.httpResponse.Body.readErr
                    THEN "read, closed" ELSE "open"]
  /\ rerr' = NoErr
  /\ rdpc' = "idle"
  /\ rseq' = 0
  /\ rcall' = NoCall
  /\ UNCHANGED <<customHeaders, userAgent, mutex, pending, writerVars, rrb, closing, closed, dec>>

\* resp.Seq = call.Seq up to the return; the deferred r.Body.Close().
ReaderProcess ==
  /\ rdpc = "process"
  /\ resp' = [Seq |-> rcall.Seq, ServiceMethod |-> rcall.ServiceMethod,
              Error |-> HeaderOutcome(rcall, response).Error]
  /\ response' = HeaderOutcome(rcall, response).response
  /\ bodies' = [bodies EXCEPT ![rcall.Seq] = IF HeaderOutcome(rcall, response).read
                                              THEN "read, closed" ELSE "closed"]
  /\ rerr' = NoErr
  /\ rdpc' = "idle"
  /\ rseq' = 0
  /\ rcall' = NoCall
  /\ UNCHANGED <<customHeaders, userAgent, mutex, pending, writerVars, rrb, closing, closed, dec>>

\* case <-c.shutdown: return net.ErrClosed.  The reader took the signal on
\* entering the select ("shutdown") or was woken from the select by Close
\* ("woken").
ReaderClosed ==
  /\ rdpc \in {"shutdown", "woken"}
  /\ rerr' = ErrClosed
  /\ rdpc' = "idle"
  /\ UNCHANGED <<codecVars, writerVars, rseq, rcall, resp, rrb, bodies, closing, closed, dec>>

\* ------------------------------------------------------------------------
\* Codec.ReadResponseBody
\* ------------------------------------------------------------------------

\* What ReadResponseBody returns and leaves in v, r being the result of Decode.
BodyResult(r) == [status |-> r.status, err |-> r.err, out |-> <<r.v>>]

\* The record of a call of ReadResponseBody(v) that gave b.
BodyCall(v, b) == [called |-> TRUE, v |-> v, out |-> b.out, status |-> b.status, err |-> b.err]

\* ReadBody without the check for a missing in-flight response: it decodes
\* an empty response instead.
ReadBodyNoCheck(cur, v) ==
  IF v = <<>> THEN [status |-> "ok", err |-> NoErr, out |-> v]
  ELSE BodyResult(Decode(StdDecoder(FALSE), IF cur = <<>> THEN [Params |-> <<>>, Fault |-> <<>>] ELSE cur[1], v[1]))

\* ReadResponseBody(v) with the in-flight response cur.
ReadBody(cur, v) ==
  IF v = <<>> THEN [status |-> "ok", err |-> NoErr, out |-> v]
  ELSE IF cur = <<>>
    THEN [status |-> "error", err |-> Errorf("no in-flight response found", <<>>), out |-> v]
  ELSE BodyResult(Decode(StdDecoder(FALSE), cur[1], v[1]))

\* ReadResponseBody(v)
ReadResponseBodyInto(v) ==
  /\ rdpc = "idle"
  /\ rrb' = BodyCall(v, ReadBody(response, v))
  /\ rdpc' = IF rrb'.status = "panic" THEN "panic" ELSE "idle"
  /\ UNCHANGED <<codecVars, writerVars, rseq, rcall, resp, rerr, bodies, closing, closed, dec>>

ReadResponseBody == \E v \in BodyTargets : ReadResponseBodyInto(v)

\* ------------------------------------------------------------------------
\* Codec.Close
\* ------------------------------------------------------------------------

\* Close that also cancels the exchanges in flight: their WriteRequests
\* return the closed error.
CloseCancelsExchanges ==
  /\ closing + closed < MaxCloses
  /\ IF rdpc = "select"
       THEN /\ rdpc' = "woken"
            /\ closed' = closed + 1
            /\ closing' = closing
       ELSE /\ closing' = closing + 1
            /\ UNCHANGED <<rdpc, closed>>
  /\ wpc' = [w \in Seqs |-> IF wpc[w] = "http" THEN "returned" ELSE wpc[w]]
  /\ wret' = [w \in Seqs |-> IF wpc[w] = "http" THEN ErrClosed ELSE wret[w]]
  /\ UNCHANGED <<codecVars, wreq, whttp, wire, rseq, rcall, resp, rerr, rrb, bodies, dec>>

\* Close returning nil without signalling shutdown.
CloseNoSignal ==
  /\ closing + closed < MaxCloses
  /\ closed' = closed + 1
  /\ UNCHANGED <<codecVars, writerVars, readerVars, bodies, closing, dec>>

\* c.shutdown <- struct{}{}.  The channel is unbuffered: a reader parked in the
\* select takes the signal at once, and Close goes on to CloseIdleConnections
\* and returns nil; otherwise Close blocks on the send.
Close ==
  /\ closing + closed < MaxCloses
  /\ IF rdpc = "select"
       THEN /\ rdpc' = "woken"
            /\ closed' = closed + 1
            /\ closing' = closing
       ELSE /\ closing' = closing + 1
            /\ UNCHANGED <<rdpc, closed>>
  /\ UNCHANGED <<codecVars, writerVars, rseq, rcall, resp, rerr, rrb, bodies, dec>>

\* ------------------------------------------------------------------------
\* The codec and its callers
\* ------------------------------------------------------------------------

Next ==
  \/ \E w \in Seqs : WriteRequest(w)
  \/ \E w \in Seqs : HTTPDone(w)
  \/ \E w \in Seqs : WriterLock(w)
  \/ \E w \in Seqs : WriterCommit(w)
  \/ \E w \in Seqs : WriterPost(w)
  \/ ReadResponseHeader
  \/ ReaderLock
  \/ ReaderTake
  \/ ReaderProcess
  \/ ReaderClosed
  \/ ReadResponseBody
  \/ Close

Spec == Init /\ [][Next]_vars

\* The codec with servers that either cannot be reached or answer 200 with a
\* params document: what a response holds plays no part in shutdown.
LiveResults(w) ==
  {d \in HTTPResults(w) : d.err # NoErr \/ d.res = HTTPResponse(200, FALSE, ParamsDoc(SeqText(w)))}

HTTPDoneLive(w) == HTTPDoneWith(w, LiveResults(w))

NextLive ==
  \/ \E w \in Seqs : WriteRequest(w)
  \/ \E w \in Seqs : HTTPDoneLive(w)
  \/ \E w \in Seqs : WriterLock(w)
  \/ \E w \in Seqs : WriterCommit(w)
  \/ \E w \in Seqs : WriterPost(w)
  \/ ReadResponseHeader
  \/ ReaderLock
  \/ ReaderTake
  \/ ReaderProcess
  \/ ReaderClosed
  \/ ReadResponseBody
  \/ Close

\* A reader that took the shutdown signal is scheduled and returns.
LiveSpec == Init /\ [][NextLive]_vars /\ WF_vars(ReaderClosed)

\* ------------------------------------------------------------------------
\* WriteRequest of clients built with options
\* ------------------------------------------------------------------------

\* NewClient(endpoint, opts...): NewCodec, then the Headers and UserAgent
\* options.
InitOptions ==
  /\ customHeaders \in CustomHeaderChoices
  /\ userAgent \in UserAgents
  /\ CodecInit
  /\ dec = DecIdle

NextWrite ==
  \/ \E w \in Seqs : WriteRequest(w)
  \/ \E w \in Seqs : HTTPDone(w)

SpecWrite == InitOptions /\ [][NextWrite]_vars

\* ------------------------------------------------------------------------
\* StdDecoder.Decode on its own
\* ------------------------------------------------------------------------

FieldKinds == {"int", "string"}

Fields == {Field(e, k) : e \in BOOLEAN, k \in FieldKinds}

RECURSIVE SeqsUpTo(_, _)
SeqsUpTo(S, n) ==
  IF n = 0 THEN {<<>>}
  ELSE SeqsUpTo(S, n - 1) \cup {Append(q, x) : q \in {r \in SeqsUpTo(S, n - 1) : Len(r) = n - 1}, x \in S}

\* A value a field holds before Decode, other than its zero value.
PresetV(k) == IF k = "int" THEN IntV(9) ELSE StringV(<<"z">>)

\* Target records: every type of at most MaxFields fields, zeroed or preset.
DecodeTargets ==
  {Record(type) : type \in SeqsUpTo(Fields, MaxFields)}
  \cup {[type |-> type, vals |-> [i \in 1..Len(type) |-> PresetV(type[i].kind)]] :
          type \in SeqsUpTo(Fields, MaxFields)}

ParamValues == {IntValue(<<"7">>), IntValue(<<"x">>), StringValue(<<"a">>), RawValue(<<"r">>)}

DecodeResponses == {[Params |-> ps, Fault |-> <<>>] : ps \in SeqsUpTo(ParamValues, MaxParams)}

InitDecode ==
  /\ customHeaders = NoHeaders
  /\ userAgent = defaultUserAgent
  /\ CodecInit
  /\ \E r \in DecodeResponses, v \in DecodeTargets :
       dec = [pc |-> "call", resp |-> r, v |-> v, out |-> [status |-> "ok", err |-> NoErr, v |-> v]]

\* d.Decode(response, v)
DecodeCall ==
  /\ dec.pc = "call"
  /\ dec' = [dec EXCEPT !.pc = "done", !.out = Decode(StdDecoder(FALSE), dec.resp, dec.v)]
  /\ UNCHANGED <<codecVars, writerVars, readerVars, bodies, closing, closed>>

SpecDecode == InitDecode /\ [][DecodeCall]_vars

\* ------------------------------------------------------------------------
\* StdDecoder.DecodeRaw on its own
\* ------------------------------------------------------------------------

\* DecodeRaw running Decode before it looks at the fault.
DecodeRawDecodeFirst(d, doc, v) ==
  LET p == NewResponse(doc)
      r == Decode(d, p.resp[1], v)
  IN  IF p.err # NoErr THEN [status |-> "error", err |-> p.err, fault |-> <<>>, v |-> v]
      ELSE IF r.status # "ok" THEN [status |-> r.status, err |-> r.err, fault |-> <<>>, v |-> r.v]
      ELSE IF p.resp[1].Fault # <<>>
        THEN [status |-> "error", err |-> FaultError(decodeFault(p.resp[1].Fault[1])),
              fault |-> <<decodeFault(p.resp[1].Fault[1])>>, v |-> v]
      ELSE [status |-> r.status, err |-> r.err, fault |-> <<>>, v |-> r.v]

\* StdDecoder.DecodeRaw(body, v): the status, the error returned, the Fault
\* when the error is one, and the target afterwards.
DecodeRaw(d, doc, v) ==
  LET p == NewResponse(doc)
  IN  IF p.err # NoErr THEN [status |-> "error", err |-> p.err, fault |-> <<>>, v |-> v]
      ELSE IF p.resp[1].Fault # <<>>
        THEN [status |-> "error", err |-> FaultError(decodeFault(p.resp[1].Fault[1])),
              fault |-> <<decodeFault(p.resp[1].Fault[1])>>, v |-> v]
      ELSE LET r == Decode(d, p.resp[1], v)
           IN  [status |-> r.status, err |-> r.err, fault |-> <<>>, v |-> r.v]

\* The fault of FaultDoc with its code in an i4 element.
FaultDocI4 ==
  Document(TRUE, <<>>, <<<<Member("faultString", StringValue(TooMany)),
                           Member("faultCode", Int4Value(<<"4">>))>>>>)

\* A fault whose code is not an integer element.
FaultDocNoCode ==
  Document(TRUE, <<>>, <<<<Member("faultCode", StringValue(<<"4">>)),
                           Member("faultString", StringValue(TooMany))>>>>)

RawDocs ==
  {FaultDoc, FaultDocI4, FaultDocNoCode, MalformedDoc, Document(TRUE, <<>>, <<>>)}
  \cup {Document(TRUE, <<ps>>, <<>>) : ps \in SeqsUpTo({IntValue(<<"7">>), StringValue(<<"a">>)}, MaxParams)}

InitDecodeRaw ==
  /\ customHeaders = NoHeaders
  /\ userAgent = defaultUserAgent
  /\ CodecInit
  /\ \E doc \in RawDocs, v \in DecodeTargets :
       dec = [pc |-> "call", doc |-> doc, v |-> v,
              out |-> [status |-> "ok", err |-> NoErr, fault |-> <<>>, v |-> v]]

\* d.DecodeRaw(body, v)
DecodeRawCall ==
  /\ dec.pc = "call"
  /\ dec' = [dec EXCEPT !.pc = "done", !.out = DecodeRaw(StdDecoder(FALSE), dec.doc, dec.v)]
  /\ UNCHANGED <<codecVars, writerVars, readerVars, bodies, closing, closed>>

SpecDecodeRaw == InitDecodeRaw /\ [][DecodeRawCall]_vars

\* ------------------------------------------------------------------------
\* StdDecoder.decodeValue on one value and one field
\* ------------------------------------------------------------------------

ScalarKinds == {"int", "string", "bool", "float64", "time", "bytes", "interface"}

\* Field types a value is decoded into: the scalar kinds and []string.
ValueFields ==
  {[exported |-> TRUE, kind |-> k] : k \in ScalarKinds}
  \cup {[exported |-> TRUE, kind |-> "slice", elem |-> [exported |-> TRUE, kind |-> "string"]]}

\* A value a field holds before decoding, other than its zero value.
PresetOf(f) ==
  CASE f.kind \in {"int", "string"} -> PresetV(f.kind)
    [] f.kind = "bool" -> BoolV(TRUE)
    [] f.kind = "float64" -> FloatV(2500000)
    [] f.kind = "time" -> TimeV(<<2019, 10, 11, 13, 40, 30>>, 120, "fixed")
    [] f.kind = "bytes" -> BytesV(FALSE, <<1>>)
    [] f.kind = "slice" -> SliceV(FALSE, <<StringV(<<"o", "l", "d">>)>>)
    [] OTHER -> IntV(9)

\* Texts of a boolean element.
BooleanTexts ==
  {<<>>, <<"1">>,
   <<"0">>,
   <<"t", "r", "u", "e">>,
   <<"T", "R", "U", "E">>,
   <<"T", "r", "u", "e">>,
   <<"f", "a", "l", "s", "e">>,
   <<"F", "A", "L", "S", "E">>,
   <<"F", "a", "l", "s", "e">>,
   <<"t", "R", "U", "E">>,
   <<"f", "a", "l", "s", "E">>,
   <<"2">>,
   <<"y", "e", "s">>}

StockholmText == <<"2", "0", "1", "9", "-", "1", "0", "-", "1", "1", "T", "1", "3", ":", "4", "0", ":", "3", "0", "+", "0", "2", ":", "0", "0">>

\* The values decoded: each typed element empty, well-formed and ill-formed.
WireValues ==
  {IntValue(t) : t \in {<<>>, <<"7">>, <<"x">>}}
  \cup {Int4Value(t) : t \in {<<>>, <<"7">>}}
  \cup {DoubleValue(t) : t \in {<<>>, <<"1", ".", "5">>, <<"x">>}}
  \cup {BooleanValue(t) : t \in BooleanTexts}
  \cup {StringValue(t) : t \in {<<>>, <<"a">>}}
  \cup {Base64Value(t) : t \in {<<>>, <<"Y", "Q", "=", "=">>, <<"!">>}}
  \cup {DateTimeValue(t) : t \in {<<>>, StockholmText, <<"x">>}}
  \cup {ArrayValue(vs) : vs \in {<<>>, <<StringValue(<<"a">>)>>}}
  \cup {RawValue(<<"r">>)}

InitValue ==
  /\ customHeaders = NoHeaders
  /\ userAgent = defaultUserAgent
  /\ CodecInit
  /\ \E value \in WireValues, f \in ValueFields, cur \in {"zero", "preset"} :
       LET c == IF cur = "zero" THEN ZeroOf(f) ELSE PresetOf(f)
       IN  dec = [pc |-> "call", value |-> value, f |-> f, cur |-> c,
                  out |-> [status |-> "ok", err |-> NoErr, val |-> c]]

\* d.decodeValue(value, field)
DecodeValueCall ==
  /\ dec.pc = "call"
  /\ dec' = [dec EXCEPT !.pc = "done", !.out = decodeValue(StdDecoder(FALSE), dec.value, dec.f, dec.cur)]
  /\ UNCHANGED <<codecVars, writerVars, readerVars, bodies, closing, closed>>

SpecValue == InitValue /\ [][DecodeValueCall]_vars

\* ------------------------------------------------------------------------
\* structMemberToFieldName on its own
\* ------------------------------------------------------------------------

\* The longest enumerated member name.
MaxNameLen == 3

NameAlphabet == {"m", "y", "F", "2", "_", "-", ".", " ", "$"}

\* The names of Test_structMemberToFieldName and of the README.
TestNames ==
  {<<"m", "y", "F", "i", "e", "l", "d">>, <<"m", "y", "_", "f", "i", "e", "l", "d">>, <<"m", "y", "_", "F", "i", "e", "l", "d">>,
   <<"M", "Y", "_", "F", "I", "E", "L", "D">>, <<"2", "_", "n", "u", "m", "e", "r", "i", "c", ".", "V", "a", "l", "u", "e">>}

MemberNames == SeqsUpTo(NameAlphabet, MaxNameLen) \cup TestNames

InitName ==
  /\ customHeaders = NoHeaders
  /\ userAgent = defaultUserAgent
  /\ CodecInit
  /\ \E name \in MemberNames : dec = [pc |-> "call", name |-> name, out |-> <<>>]

\* structMemberToFieldName(m.Name)
NameCall ==
  /\ dec.pc = "call"
  /\ dec' = [dec EXCEPT !.pc = "done", !.out = structMemberToFieldName(dec.name)]
  /\ UNCHANGED <<codecVars, writerVars, readerVars, bodies, closing, closed>>

SpecName == InitName /\ [][NameCall]_vars

\* ------------------------------------------------------------------------
\* StdDecoder.decodeValue on a struct value and a record target
\* ------------------------------------------------------------------------

\* The most members of an enumerated struct value.
MaxMembers == 2

\* The target of the README: a plain field and a field renamed to a name that
\* is no field name.
ReadmeType ==
  <<StructField(<<"S", "t", "r", "i", "n", "g", "V", "a", "l", "u", "e">>, <<>>, TRUE, "string"),
    StructField(<<"S", "e", "c", "o", "n", "d", "N", "u", "m", "e", "r", "i", "c", "V", "a", "l", "u", "e">>, <<"2", "_", "n", "u", "m", "e", "r", "i", "c", ".", "V", "a", "l", "u", "e">>, TRUE, "string")>>

\* The target of Test_findFieldByNameOrTag.
SkipType ==
  <<StructField(<<"N", "o", "r", "m", "a", "l">>, <<>>, TRUE, "string"),
    StructField(<<"R", "e", "n", "a", "m", "e", "d">>, <<"2", "2", "2">>, TRUE, "string"),
    StructField(<<"S", "k", "i", "p", "M", "e">>, <<"-">>, TRUE, "string"),
    StructField(<<"U", "s", "e", "M", "e", "I", "n", "s", "t", "e", "a", "d">>, <<"S", "k", "i", "p", "M", "e", ",", "u", "n", "k", "n", "o", "w", "n", "-", "o", "p", "t">>, TRUE, "string")>>

\* A skipped field whose name no other field claims.
SkipOnlyType ==
  <<StructField(<<"N", "o", "r", "m", "a", "l">>, <<>>, TRUE, "string"),
    StructField(<<"S", "k", "i", "p", "M", "e">>, <<"-">>, TRUE, "string")>>

\* A field whose tag is the name of another field.
ShadowType ==
  <<StructField(<<"M", "y", "F", "i", "e", "l", "d">>, <<>>, TRUE, "string"),
    StructField(<<"O", "t", "h", "e", "r">>, <<"M", "y", "F", "i", "e", "l", "d">>, TRUE, "string")>>

\* Tags that normalize to the names of their fields (decode_test.go).
SnakeType ==
  <<StructField(<<"I", "d">>, <<"i", "d">>, TRUE, "string"),
    StructField(<<"P", "u", "b", "D", "a", "t", "e">>, <<"p", "u", "b", "_", "d", "a", "t", "e">>, TRUE, "string")>>

StructTypes == {ReadmeType, SkipType, SkipOnlyType, ShadowType, SnakeType}

WireNames ==
  {<<"s", "t", "r", "i", "n", "g", "V", "a", "l", "u", "e">>, <<"2", "_", "n", "u", "m", "e", "r", "i", "c", ".", "V", "a", "l", "u", "e">>, <<"N", "o", "r", "m", "a", "l">>, <<"2", "2", "2">>,
   <<"S", "k", "i", "p", "M", "e">>, <<"m", "y", "_", "f", "i", "e", "l", "d">>, <<"p", "u", "b", "_", "d", "a", "t", "e">>, <<"u", "n", "k", "n", "o", "w", "n">>, <<"_">>}

\* The text of the member at position k.
MemberText(k) == <<"v", ToString(k)>>

\* Struct values: up to MaxMembers members with string values.
RECURSIVE MemberLists(_)
MemberLists(n) ==
  IF n = 0 THEN {<<>>}
  ELSE MemberLists(n - 1)
       \cup {Append(q, Member(name, StringValue(MemberText(n)))) :
               q \in {r \in MemberLists(n - 1) : Len(r) = n - 1}, name \in WireNames}

StructTarget(type) == [exported |-> TRUE, kind |-> "struct", fields |-> type]

InitStruct ==
  /\ customHeaders = NoHeaders
  /\ userAgent = defaultUserAgent
  /\ CodecInit
  /\ \E skip \in BOOLEAN, type \in StructTypes, members \in MemberLists(MaxMembers), cur \in {"zero", "preset"} :
       LET c == IF cur = "zero" THEN ZeroOf(StructTarget(type))
                ELSE StructV([i \in 1..Len(type) |-> PresetV("string")])
       IN  dec = [pc |-> "call", d |-> StdDecoder(skip), value |-> StructValue(members),
                  f |-> StructTarget(type), cur |-> c,
                  out |-> [status |-> "ok", err |-> NoErr, val |-> c]]

\* d.decodeValue(value, field) with a struct value
DecodeStructCall ==
  /\ dec.pc = "call"
  /\ dec' = [dec EXCEPT !.pc = "done", !.out = decodeValue(dec.d, dec.value, dec.f, dec.cur)]
  /\ UNCHANGED <<codecVars, writerVars, readerVars, bodies, closing, closed>>

SpecStruct == InitStruct /\ [][DecodeStructCall]_vars

\* ------------------------------------------------------------------------
\* StdEncoder (encode_test.go, README.md): scalar encodings
\* ------------------------------------------------------------------------

DigitChars == <<"0", "1", "2", "3", "4", "5", "6", "7", "8", "9">>

\* The decimal digits of a natural number.
RECURSIVE NatText(_)
NatText(n) == IF n < 10 THEN <<DigitChars[n + 1]>> ELSE Append(NatText(n \div 10), DigitChars[(n % 10) + 1])

\* The digits of n padded with zeros on the left to the width w.
RECURSIVE PadText(_, _)
PadText(n, w) == IF w <= 0 THEN <<>> ELSE Append(PadText(n \div 10, w - 1), DigitChars[(n % 10) + 1])

\* <int>: the decimal text of the integer.
encodeInt(v) == IF v.i < 0 THEN <<"-">> \o NatText(0 - v.i) ELSE NatText(v.i)

\* <double>: fixed-point text with six decimals (12345 gives 12345.000000).
encodeDouble(v) ==
  LET a == IF v.i < 0 THEN 0 - v.i ELSE v.i
  IN  (IF v.i < 0 THEN <<"-">> ELSE <<>>) \o NatText(a \div 1000000) \o <<".">> \o PadText(a % 1000000, 6)

\* <boolean>: 1 or 0.
encodeBoolean(v) == IF v.b THEN <<"1">> ELSE <<"0">>

\* <string>: the text with <, >, &, ' and the double quote escaped.
EscapeChar(c) ==
  CASE c = "<" -> <<"&", "l", "t", ";">>
    [] c = ">" -> <<"&", "g", "t", ";">>
    [] c = "&" -> <<"&", "a", "m", "p", ";">>
    [] c = "'" -> <<"&", "#", "3", "9", ";">>
    [] c = "DQUOTE" -> <<"&", "#", "3", "4", ";">>
    [] OTHER -> <<c>>

RECURSIVE encodeString(_)
encodeString(s) == IF s = <<>> THEN <<>> ELSE EscapeChar(Head(s)) \o encodeString(Tail(s))

\* base64.StdEncoding.EncodeToString
RECURSIVE EncodeToString(_)
EncodeToString(bytes) ==
  IF bytes = <<>> THEN <<>>
  ELSE LET k  == IF Len(bytes) >= 3 THEN 3 ELSE Len(bytes)
           b  == [i \in 1..3 |-> IF i <= k THEN bytes[i] ELSE 0]
           n  == b[1] * 65536 + b[2] * 256 + b[3]
           cs == <<B64Alphabet[(n \div 262144) + 1], B64Alphabet[((n \div 4096) % 64) + 1],
                   B64Alphabet[((n \div 64) % 64) + 1], B64Alphabet[(n % 64) + 1]>>
       IN  SubSeq(cs, 1, k + 1) \o [i \in 1..(3 - k) |-> "="] \o EncodeToString(SubSeq(bytes, k + 1, Len(bytes)))

\* <base64>
encodeBase64(v) == EncodeToString(v.bytes)

\* <dateTime.iso8601>: the wall clock of the time followed by its own offset
\* (Z for UTC), as in time.RFC3339.
encodeTime(v) ==
  LET w == v.wall
      a == IF v.offset < 0 THEN 0 - v.offset ELSE v.offset
  IN  PadText(w[1], 4) \o <<"-">> \o PadText(w[2], 2) \o <<"-">> \o PadText(w[3], 2) \o <<"T">>
      \o PadText(w[4], 2) \o <<":">> \o PadText(w[5], 2) \o <<":">> \o PadText(w[6], 2)
      \o (IF v.offset = 0 THEN <<"Z">>
          ELSE <<IF v.offset < 0 THEN "-" ELSE "+">> \o PadText(a \div 60, 2) \o <<":">> \o PadText(a % 60, 2))

\* ------------------------------------------------------------------------
\* StdEncoder (encode_test.go, README.md): values, records, maps and Encode
\* ------------------------------------------------------------------------

\* A field of a struct type, a slice type or a pointer type.
StructFieldOf(name, tag, exported, fields) ==
  [name |-> name, tag |-> tag, exported |-> exported, kind |-> "struct", fields |-> fields]

\* An element written inside <value>: its tag, its text, and the values of an
\* array or the members of a struct.
Element(tag, text, items) == [tag |-> tag, text |-> text, items |-> items]

\* <value><nil/></value>: the marker of a nil pointer.
NilElement == Element("nil", <<>>, <<>>)

\* The name a field has on the wire: its rename tag if it has one, else its own.
WireName(f) == IF getFieldNameFromTag(f) # <<>> THEN getFieldNameFromTag(f) ELSE f.name

\* The keys of a map in the order the range statement visits them, order being
\* one permutation of all the keys in use.
RangeKeys(entries, order) == SelectSeq(order, LAMBDA k : k \in DOMAIN entries)

\* isByteArray: a slice of uint8 is encoded as base64, any other slice as array.
isByteArray(v) == v.t = "bytes"

RECURSIVE encodeValue(_, _, _)
RECURSIVE encodeFields(_, _, _, _)

\* encodeArray
encodeArray(v, f, order) ==
  Element("array", <<>>, [i \in 1..Len(v.items) |-> encodeValue(v.items[i], f.elem, order)])

\* encodeMap: one member per entry, named by the key.
encodeMap(entries, order) ==
  LET keys == RangeKeys(entries, order)
  IN  Element("struct", <<>>,
              [i \in 1..Len(keys) |->
                 Member(keys[i], encodeValue(entries[keys[i]], [kind |-> "interface"], order))])

\* The members of encodeStruct from field i on: one member per exported field,
\* in the order of the type.
encodeFields(vals, fields, i, order) ==
  IF i > Len(fields) THEN <<>>
  ELSE IF ~fields[i].exported THEN encodeFields(vals, fields, i + 1, order)
  ELSE <<Member(WireName(fields[i]), encodeValue(vals[i], fields[i], order))>>
       \o encodeFields(vals, fields, i + 1, order)

\* encodeStruct
encodeStruct(v, f, order) == Element("struct", <<>>, encodeFields(v.vals, f.fields, 1, order))

\* encodeValue: the element of a Go value held by a field with descriptor f.
encodeValue(v, f, order) ==
  CASE v.t = "nil" -> NilElement
    [] v.t = "int" -> Element("int", encodeInt(v), <<>>)
    [] v.t = "float64" -> Element("double", encodeDouble(v), <<>>)
    [] v.t = "bool" -> Element("boolean", encodeBoolean(v), <<>>)
    [] v.t = "string" -> Element("string", encodeString(v.s), <<>>)
    [] v.t = "time" -> Element("dateTime.iso8601", encodeTime(v), <<>>)
    [] isByteArray(v) -> Element("base64", encodeBase64(v), <<>>)
    [] v.t = "slice" -> encodeArray(v, f, order)
    [] v.t = "struct" -> encodeStruct(v, f, order)
    [] v.t = "map" -> encodeMap(v.entries, order)

\* The arguments of a call: none, a struct (or a pointer to one), a map without
\* a struct around it, or a value of another type.
NoArgs == [t |-> "nil"]

StructArgs(type, vals) == [t |-> "struct", type |-> type, vals |-> vals]

MapArgs(key, entries) == [t |-> "map", key |-> key, entries |-> entries]

OtherArgs(type) == [t |-> type]

\* A method call on the wire: params is <<>> when there is no params element,
\* else <<the parameters>>.
MethodCall(methodName, params) == [methodName |-> methodName, params |-> params]

\* The parameters of a struct argument that also gives the unexported fields.
encodeArgsAllFields(args, order) ==
  [i \in 1..Len(args.type) |-> encodeValue(args.vals[i], args.type[i], order)]

\* The parameters of a struct argument: one per exported field, in the order of
\* the type.
encodeArgs(args, order) ==
  LET ms == encodeFields(args.vals, args.type, 1, order)
  IN  [i \in 1..Len(ms) |-> ms[i].Value]

\* The check of the key type of a bare map that lets every key type through.
bareMapKeyAny(key) == NoErr

\* The key type of a map given without a struct around it must be string.
bareMapKey(key) ==
  IF key # "string"
  THEN Errorf("unsupported type %s for bare map key, only string keys are supported", <<key>>)
  ELSE NoErr

\* The member name of a map key: the key, or the decimal text of a number.
KeyName(key, k) == IF key = "string" THEN k ELSE encodeInt(IntV(k))

\* StdEncoder.Encode(w, methodName, args): the error, and what was written.
Encode(methodName, args, order) ==
  CASE args.t = "nil" -> [err |-> NoErr, out |-> <<MethodCall(methodName, <<>>)>>]
    [] args.t = "struct" ->
         LET ps == encodeArgs(args, order)
         IN  [err |-> NoErr,
              out |-> <<MethodCall(methodName, IF ps = <<>> THEN <<>> ELSE <<ps>>)>>]
    [] args.t = "map" ->
         IF bareMapKey(args.key) # NoErr THEN [err |-> bareMapKey(args.key), out |-> <<>>]
         ELSE LET keys == RangeKeys(args.entries, order)
                  ms   == [i \in 1..Len(keys) |->
                             Member(KeyName(args.key, keys[i]),
                                    encodeValue(args.entries[keys[i]], [kind |-> "interface"], order))]
              IN  [err |-> NoErr, out |-> <<MethodCall(methodName, <<<<Element("struct", <<>>, ms)>>>>)>>]
    [] OTHER -> [err |-> Errorf("unsupported argument type %s", <<args.t>>), out |-> <<>>]

\* ------------------------------------------------------------------------
\* A specification of StdEncoder.Encode alone
\* ------------------------------------------------------------------------

MaxArgFields == 2

\* Fields of argument structs, after those of TestStdEncoder_Encode and
\* Test_encodeStruct.
RenamedStruct ==
  StructFieldOf(<<"M", "y", "S", "t", "r", "u", "c", "t">>, <<>>, TRUE,
                <<StructField(<<"S", "t", "r", "i", "n", "g">>, <<"2", "-", ".", "A", "r", "g">>, TRUE, "string")>>)

ArgFields ==
  {StructField(<<"S", "t", "r", "i", "n", "g">>, <<>>, TRUE, "string"),
   StructField(<<"s", "m", "t", "h">>, <<>>, FALSE, "string"),
   StructField(<<"B", "o", "o", "l">>, <<>>, TRUE, "bool"),
   StructField(<<"I", "n", "t">>, <<>>, TRUE, "int"),
   StructField(<<"D", "o", "u", "b", "l", "e">>, <<>>, TRUE, "float64"),
   StructField(<<"N", "a", "m", "e">>, <<>>, TRUE, "ptr"),
   RenamedStruct}

\* The values a field of an argument takes.
ArgValues(f) ==
  CASE f.kind = "string" -> {StringV(<<"m", "y">>), StringV(<<"<", "&">>)}
    [] f.kind = "bool" -> {BoolV(TRUE), BoolV(FALSE)}
    [] f.kind = "int" -> {IntV(123)}
    [] f.kind = "float64" -> {FloatV(3140000)}
    [] f.kind = "ptr" -> {NilV, StringV(<<"s", "1">>)}
    [] f.kind = "struct" -> {StructV(<<StringV(<<"f", "o", "o">>)>>)}

\* The struct a literal gives that sets the fields in the order populated.
RECURSIVE Populate(_, _, _)
Populate(vals, given, populated) ==
  IF populated = <<>> THEN vals
  ELSE Populate([vals EXCEPT ![Head(populated)] = given[Head(populated)]], given, Tail(populated))

Foo == <<"f", "o", "o">>

Baz == <<"b", "a", "z">>

\* Maps given without a struct around them: with string keys and with int keys.
StringMaps ==
  {NoEntries,
   [k \in {Foo} |-> StringV(<<"b", "a", "r", "2">>)],
   [k \in {Foo, Baz} |-> IF k = Foo THEN StringV(<<"b", "a", "r", "2">>) ELSE IntV(123)]}

IntMaps ==
  {[k \in {123} |-> StringV(<<"b", "a", "r", "2">>)],
   [k \in {123, 234} |-> IF k = 123 THEN StringV(<<"b", "a", "r", "2">>) ELSE IntV(123)]}

\* The call of Encode not yet made.
EncodeOf(args, populated) ==
  [pc |-> "call", methodName |-> "myMethod", args |-> args, populated |-> populated,
   order |-> <<>>, err |-> NoErr, out |-> <<>>]

InitEncode ==
  /\ customHeaders = NoHeaders
  /\ userAgent = defaultUserAgent
  /\ CodecInit
  /\ \/ \E args \in {NoArgs, OtherArgs("int")} : dec = EncodeOf(args, <<>>)
     \/ \E entries \in StringMaps : dec = EncodeOf(MapArgs("string", entries), <<>>)
     \/ \E entries \in IntMaps : dec = EncodeOf(MapArgs("int", entries), <<>>)
     \/ \E type \in SeqsUpTo(ArgFields, MaxArgFields) :
          \E given \in [1..Len(type) -> UNION {ArgValues(f) : f \in ArgFields}],
             populated \in RangeOrders(1..Len(type)) :
            /\ \A i \in 1..Len(type) : given[i] \in ArgValues(type[i])
            /\ dec = EncodeOf(StructArgs(type, Populate([i \in 1..Len(type) |-> NilV], given, populated)),
                              populated)

\* enc.Encode(buf, "myMethod", args)
EncodeCall ==
  /\ dec.pc = "call"
  /\ \E order \in RangeOrders(IF dec.args.t = "map" THEN DOMAIN dec.args.entries ELSE {}) :
       LET r == Encode(dec.methodName, dec.args, order)
       IN  dec' = [dec EXCEPT !.pc = "done", !.order = order, !.err = r.err, !.out = r.out]
  /\ UNCHANGED <<codecVars, writerVars, readerVars, bodies, closing, closed>>

SpecEncode == InitEncode /\ [][EncodeCall]_vars

\* ------------------------------------------------------------------------
\* A specification of the round trip: Encode, the parameters read back as a
\* response, Decode
\* ------------------------------------------------------------------------

\* The character of an entity of the escaped text, by the text between & and ;.
EntityChar(e) ==
  CASE e = <<"l", "t">> -> "<"
    [] e = <<"g", "t">> -> ">"
    [] e = <<"a", "m", "p">> -> "&"
    [] e = <<"#", "3", "9">> -> "'"
    [] e = <<"#", "3", "4">> -> "DQUOTE"
    [] OTHER -> "?"

\* Character data as the XML reader returns it: the entities replaced.
RECURSIVE UnescapeText(_)
UnescapeText(t) ==
  IF t = <<>> THEN <<>>
  ELSE IF Head(t) = "&" /\ \E i \in 2..Len(t) : t[i] = ";"
    THEN LET e == CHOOSE i \in 2..Len(t) : t[i] = ";" /\ \A j \in 2..(i - 1) : t[j] # ";"
         IN  <<EntityChar(SubSeq(t, 2, e - 1))>> \o UnescapeText(SubSeq(t, e + 1, Len(t)))
  ELSE <<Head(t)>> \o UnescapeText(Tail(t))

\* The ResponseValue read from an element inside <value>; an element that is
\* none of the typed ones is kept as raw XML.
RECURSIVE ResponseValue(_)
ResponseValue(e) ==
  CASE e.tag = "int" -> IntValue(e.text)
    [] e.tag = "double" -> DoubleValue(e.text)
    [] e.tag = "boolean" -> BooleanValue(e.text)
    [] e.tag = "string" -> StringValue(UnescapeText(e.text))
    [] e.tag = "base64" -> Base64Value(e.text)
    [] e.tag = "dateTime.iso8601" -> DateTimeValue(e.text)
    [] e.tag = "array" -> ArrayValue([i \in 1..Len(e.items) |-> ResponseValue(e.items[i])])
    [] e.tag = "struct" ->
         StructValue([i \in 1..Len(e.items) |->
                        Member(UnescapeText(e.items[i].Name), ResponseValue(e.items[i].Value))])
    [] OTHER -> RawValue(<<"<">> \o <<e.tag>> \o <<"/", ">">>)

\* The response whose parameters are the ones of a method call.
ResponseOf(call) ==
  [Params |-> IF call.params = <<>> THEN <<>>
              ELSE [i \in 1..Len(call.params[1]) |-> ResponseValue(call.params[1][i])],
   Fault |-> <<>>]

PubDate == <<"P", "u", "b", "D", "a", "t", "e">>

\* Fields of the records sent round: string, integer, boolean, date-time,
\* binary and nested records, with and without rename tags.
RoundTripFields ==
  {StructField(<<"S", "t", "r", "i", "n", "g">>, <<>>, TRUE, "string"),
   StructField(PubDate, <<"p", "u", "b", "_", "d", "a", "t", "e">>, TRUE, "string"),
   StructField(<<"I", "n", "t">>, <<>>, TRUE, "int"),
   StructField(<<"B", "o", "o", "l">>, <<>>, TRUE, "bool"),
   StructField(<<"T", "i", "m", "e">>, <<>>, TRUE, "time"),
   StructField(<<"D", "a", "t", "a">>, <<>>, TRUE, "bytes"),
   StructFieldOf(<<"P", "l", "a", "i", "n">>, <<>>, TRUE,
                 <<StructField(<<"S", "t", "r", "i", "n", "g">>, <<>>, TRUE, "string")>>),
   StructFieldOf(<<"N", "u", "m", "b", "e", "r">>, <<>>, TRUE,
                 <<StructField(<<"S", "t", "r", "i", "n", "g">>, <<"2">>, TRUE, "string")>>),
   RenamedStruct}

\* The values a field of such a record takes.
RoundTripValues(f) ==
  CASE f.kind = "string" -> {StringV(<<"m", "y">>), StringV(<<"<", "&">>)}
    [] f.kind = "int" -> {IntV(123), IntV(0 - 4)}
    [] f.kind = "bool" -> {BoolV(TRUE), BoolV(FALSE)}
    [] f.kind = "time" -> {TimeV(<<2019, 10, 11, 13, 40, 30>>, 120, "Europe/Stockholm"),
                           TimeV(<<2019, 10, 11, 13, 40, 30>>, 0 - 420, "America/Los_Angeles")}
    [] f.kind = "bytes" -> {BytesV(FALSE, <<97, 98, 1, 3>>)}
    [] f.kind = "struct" -> {StructV(<<StringV(<<"f", "o", "o">>)>>)}

InitRoundTrip ==
  /\ customHeaders = NoHeaders
  /\ userAgent = defaultUserAgent
  /\ CodecInit
  /\ \E type \in SeqsUpTo(RoundTripFields, MaxArgFields) :
       \E vals \in [1..Len(type) -> UNION {RoundTripValues(f) : f \in RoundTripFields}] :
         /\ Len(type) > 0
         /\ \A i \in 1..Len(type) : vals[i] \in RoundTripValues(type[i])
         /\ dec = [pc |-> "encode", args |-> StructArgs(type, vals), err |-> NoErr, call |-> <<>>,
                   out |-> [status |-> "ok", err |-> NoErr, v |-> Record(type)]]

\* Encode("myMethod", args)
RoundTripEncode ==
  /\ dec.pc = "encode"
  /\ LET r == Encode("myMethod", dec.args, <<>>)
     IN  dec' = [dec EXCEPT !.pc = "decode", !.err = r.err, !.call = r.out]
  /\ UNCHANGED <<codecVars, writerVars, readerVars, bodies, closing, closed>>

\* Decode of the response made of the parameters, into a zero record of the
\* type of the arguments.
RoundTripDecode ==
  /\ dec.pc = "decode"
  /\ dec.err = NoErr
  /\ dec' = [dec EXCEPT !.pc = "done",
                        !.out = Decode(StdDecoder(FALSE), ResponseOf(dec.call[1]), Record(dec.args.type))]
  /\ UNCHANGED <<codecVars, writerVars, readerVars, bodies, closing, closed>>

NextRoundTrip ==
  \/ RoundTripEncode
  \/ RoundTripDecode

SpecRoundTrip == InitRoundTrip /\ [][NextRoundTrip]_vars

\* ------------------------------------------------------------------------
\* Properties
\* ------------------------------------------------------------------------

\* C1: a Close called while ReadResponseHeader is parked in the select (no
\* sender is blocked on ready) wakes that reader at once; the woken reader
\* returns net.ErrClosed, eventually, without touching the header, the pending
\* table, the in-flight response or a body; and no reader stays parked while a
\* Close is blocked on its send.
C1_CloseWakesParkedReader ==
  /\ [][(rdpc = "select" /\ closing' + closed' > closing + closed)
          => (rdpc' = "woken" /\ closing' = closing /\ closed' = closed + 1)]_vars
  /\ [](rdpc = "select" => closing = 0)
  /\ [][(rdpc = "woken" /\ rdpc' # "woken")
          => (rdpc' = "idle" /\ rerr' = ErrClosed /\ resp' = resp /\ response' = response
              /\ pending' = pending /\ bodies' = bodies)]_vars
  /\ (rdpc = "woken") ~> (rdpc = "idle" /\ rerr = ErrClosed)

C1_Witness == rdpc = "woken" /\ closed = 1 /\ closing = 0

\* C2: the call ReadResponseHeader takes from the pending table is the one
\* the WriteRequest with the received seq recorded (seq, method and HTTP
\* response), and the header it returns carries that seq, that method and the
\* outcome of that HTTP response.
C2_ResponseCorrelatedBySeq ==
  /\ rdpc = "process" =>
       /\ rseq \in Seqs
       /\ rcall.Seq = rseq
       /\ rcall.ServiceMethod = wreq[rseq].ServiceMethod
       /\ whttp[rseq].err = NoErr
       /\ rcall.httpResponse = whttp[rseq].res
  /\ (rdpc = "idle" /\ resp.Seq # 0) =>
       /\ resp.Seq \in Seqs
       /\ resp.ServiceMethod = wreq[resp.Seq].ServiceMethod
       /\ resp.ServiceMethod = MethodOf(resp.Seq)
       /\ resp.Error = HeaderOutcome([Seq |-> resp.Seq, ServiceMethod |-> resp.ServiceMethod,
                                      httpResponse |-> whttp[resp.Seq].res], response).Error
       /\ resp.Error = NoErr => response = NewResponse(whttp[resp.Seq].res.Body.doc).resp

\* Call 2 is being consumed while call 1, committed too, still waits to post.
C2_Witness == rdpc = "process" /\ rseq = 2 /\ wpc[1] = "blocked" /\ 1 \in DOMAIN pending

C4_BadStatusIsResponseError ==
  [][(rdpc = "process" /\ rdpc' # "process"
      /\ (rcall.httpResponse.StatusCode < 200 \/ rcall.httpResponse.StatusCode > 299))
       => /\ rdpc' = "idle"
          /\ rerr' = NoErr
          /\ resp' = [Seq |-> rcall.Seq, ServiceMethod |-> rcall.ServiceMethod,
                      Error |-> Errorf("bad response code: %d", <<rcall.httpResponse.StatusCode>>)]
          /\ response' = response
          /\ bodies'[rcall.Seq] = "closed"
          /\ pending' = pending]_vars

C4_Witness ==
  /\ rdpc = "idle"
  /\ resp.Error = Errorf("bad response code: %d", <<300>>)
  /\ resp.Seq \in Seqs
  /\ bodies[resp.Seq] = "closed"

\* C5: a consumed call whose response parses to a Fault makes
\* ReadResponseHeader return nil with the Error "<code>: <message>" of that
\* fault; the in-flight response stays what it was and no target is written.
C5_FaultSurfacedAtHeader ==
  [][(rdpc = "process" /\ rdpc' # "process"
      /\ rcall.httpResponse.StatusCode \in 200..299
      /\ ~rcall.httpResponse.Body.readErr
      /\ rcall.httpResponse.Body.doc = FaultDoc)
       => /\ rdpc' = "idle"
          /\ rerr' = NoErr
          /\ resp' = [Seq |-> rcall.Seq, ServiceMethod |-> rcall.ServiceMethod,
                      Error |-> Errorf("%d: %s", <<4, TooMany>>)]
          /\ response' = response
          /\ rrb' = rrb]_vars

\* A fault header read while the response of an earlier call is in flight.
C5_Witness ==
  /\ rdpc = "idle"
  /\ resp.Error = Errorf("%d: %s", <<4, TooMany>>)
  /\ response # <<>>

\* C6: ReadResponseBody with a non-nil target and no in-flight response
\* returns "no in-flight response found" and leaves the target as it was; with
\* a nil target it returns nil and decodes nothing.
C6_BodyNeedsInFlightResponse ==
  rrb.called =>
    /\ (rrb.v # <<>> /\ response = <<>>) =>
         /\ rrb.status = "error"
         /\ rrb.err = Errorf("no in-flight response found", <<>>)
         /\ rrb.out = rrb.v
    /\ rrb.v = <<>> => (rrb.status = "ok" /\ rrb.err = NoErr /\ rrb.out = <<>>)

C6_Witness ==
  /\ rrb.called
  /\ rrb.v # <<>>
  /\ response = <<>>
  /\ rrb.err = Errorf("no in-flight response found", <<>>)
  /\ resp.Seq # 0

\* C7 as claimed: once a Close has returned, a ReadResponseHeader called
\* afterwards takes the closed path on entering the select: it neither parks
\* nor receives a completion signal.
C7_HeaderAfterCloseIsClosed ==
  [][(closed > 0 /\ rdpc = "idle" /\ rdpc' \in {"select", "recv", "shutdown"})
       => rdpc' = "shutdown"]_vars

\* C8: the request header has Content-Type and User-Agent from the defaults
\* unless the caller's headers name them, every caller header other than
\* Content-Length with a value the caller gave, and Content-Length equal to
\* the payload length whatever the caller gave.
CallerKeys == {CanonicalKey(k) : k \in DOMAIN customHeaders}

CallerValues(c) == {customHeaders[k] : k \in {x \in DOMAIN customHeaders : CanonicalKey(x) = c}}

C8_HeaderPrecedence ==
  \A w \in Seqs :
    wpc[w] = "http" =>
      /\ DOMAIN wire[w] = {"Content-Type", "User-Agent", "Content-Length"} \cup CallerKeys
      /\ wire[w]["Content-Length"] = ToString(EncodedLen(wreq[w].ServiceMethod))
      /\ wire[w]["Content-Length"] \notin CallerValues("Content-Length")
      /\ \A c \in CallerKeys \ {"Content-Length"} : wire[w][c] \in CallerValues(c)
      /\ "Content-Type" \notin CallerKeys => wire[w]["Content-Type"] = "text/xml"
      /\ "User-Agent" \notin CallerKeys => wire[w]["User-Agent"] = userAgent

C8_Witness ==
  \E w \in Seqs :
    /\ wpc[w] = "http"
    /\ "Content-Length" \in CallerKeys
    /\ wire[w]["Content-Type"] = "text/plain"

\* C9: when the number of exported fields of the target differs from the
\* number of parameters, Decode returns the error naming both counts and
\* writes no field.
C9_FieldCountMismatch ==
  (dec.pc = "done" /\ NumExported(dec.v.type) # Len(dec.resp.Params)) =>
    /\ dec.out.status = "error"
    /\ dec.out.err = Errorf("number of exported fields (%d) on response type doesnt match expectation (%d)",
                            <<NumExported(dec.v.type), Len(dec.resp.Params)>>)
    /\ dec.out.v = dec.v

\* Two fields of which one is exported, two parameters, a preset target.
C9_Witness ==
  /\ dec.pc = "done"
  /\ Len(dec.v.type) = 2
  /\ NumExported(dec.v.type) = 1
  /\ Len(dec.resp.Params) = 2
  /\ dec.v.vals[1] # ZeroV(dec.v.type[1].kind)
  /\ dec.out.status = "error"

\* The index of the j-th exported field of a type.
ExportedIndex(type, j) ==
  CHOOSE i \in 1..Len(type) :
    type[i].exported /\ Cardinality({k \in 1..i : type[k].exported}) = j

\* C10 as claimed: on a target that passes the field-count validation Decode
\* does not panic, leaves the unexported fields alone and, when it returns nil,
\* has written parameter j into the j-th exported field.
C10_ParamsToExportedFieldsInOrder ==
  (dec.pc = "done" /\ NumExported(dec.v.type) = Len(dec.resp.Params)) =>
    /\ dec.out.status # "panic"
    /\ \A i \in 1..Len(dec.v.type) : ~dec.v.type[i].exported => dec.out.v.vals[i] = dec.v.vals[i]
    /\ dec.out.status = "ok" =>
         \A j \in 1..Len(dec.resp.Params) :
           LET i == ExportedIndex(dec.v.type, j)
           IN  dec.out.v.vals[i] = decodeValue(StdDecoder(FALSE), dec.resp.Params[j], dec.v.type[i], dec.v.vals[i]).val

\* C11: DecodeRaw of a body that carries the fault with code 4 and the
\* message returns that Fault as its error whatever the target is: the field
\* count is not validated, nothing is decoded and the target is unchanged.
C11_FaultShortCircuitsDecodeRaw ==
  (dec.pc = "done" /\ dec.doc \in {FaultDoc, FaultDocI4}) =>
    /\ dec.out.status = "error"
    /\ dec.out.fault = <<[Code |-> 4, String |-> TooMany]>>
    /\ dec.out.err = Errorf("%d: %s", <<4, TooMany>>)
    /\ dec.out.v = dec.v

\* A fault decoded against a preset target of two fields, one of them exported.
C11_Witness ==
  /\ dec.pc = "done"
  /\ dec.doc = FaultDocI4
  /\ Len(dec.v.type) = 2
  /\ NumExported(dec.v.type) = 1
  /\ dec.v.vals[1] # ZeroV(dec.v.type[1].kind)
  /\ dec.out.fault # <<>>

\* C12: a typed element that is present and empty decodes without error into
\* a field of its type: string to "", int and i4 to 0, boolean to false, double
\* to 0.0, dateTime.iso8601 to the zero time and base64 to a nil slice, whatever
\* the field held; an array with an empty data element assigns nothing, so
\* the slice is not allocated and is nil when the target was fresh.
C12_EmptyValueDefaults ==
  dec.pc = "done" =>
    /\ (dec.value.String = <<<<>>>> /\ dec.f.kind = "string") =>
         dec.out = [status |-> "ok", err |-> NoErr, val |-> StringV(<<>>)]
    /\ (dec.value.Int = <<<<>>>> /\ dec.f.kind = "int") =>
         dec.out = [status |-> "ok", err |-> NoErr, val |-> IntV(0)]
    /\ (dec.value.Int4 = <<<<>>>> /\ dec.f.kind = "int") =>
         dec.out = [status |-> "ok", err |-> NoErr, val |-> IntV(0)]
    /\ (dec.value.Boolean = <<<<>>>> /\ dec.f.kind = "bool") =>
         dec.out = [status |-> "ok", err |-> NoErr, val |-> BoolV(FALSE)]
    /\ (dec.value.Double = <<<<>>>> /\ dec.f.kind = "float64") =>
         dec.out = [status |-> "ok", err |-> NoErr, val |-> FloatV(0)]
    /\ (dec.value.DateTime = <<<<>>>> /\ dec.f.kind = "time") =>
         dec.out = [status |-> "ok", err |-> NoErr, val |-> TimeV(<<1, 1, 1, 0, 0, 0>>, 0, "UTC")]
    /\ (dec.value.Base64 = <<<<>>>> /\ dec.f.kind = "bytes") =>
         dec.out = [status |-> "ok", err |-> NoErr, val |-> BytesV(TRUE, <<>>)]
    /\ (dec.value.Array = <<<<>>>> /\ dec.f.kind = "slice") =>
         /\ dec.out = [status |-> "ok", err |-> NoErr, val |-> dec.cur]
         /\ dec.cur = SliceV(TRUE, <<>>) => dec.out.val.isNil

\* An empty base64 element decoded into a field that held bytes.
C12_Witness ==
  /\ dec.pc = "done"
  /\ dec.value.Base64 = <<<<>>>>
  /\ dec.f.kind = "bytes"
  /\ ~dec.cur.isNil
  /\ dec.out.val.isNil

\* The text t in lower case.
LowerText(t) ==
  [i \in 1..Len(t) |->
     IF IsUpper(t[i]) THEN LowerLetters[CHOOSE k \in 1..Len(UpperLetters) : UpperLetters[k] = t[i]]
     ELSE t[i]]

\* C13 as claimed: a boolean text decodes to true when it is "1" or spells
\* true in any letter case, to false when it is "0" or spells false in any
\* letter case, and any other non-empty text is an error.
C13_BooleanAnyCase ==
  (dec.pc = "done" /\ dec.value.Boolean # <<>> /\ dec.value.Boolean # <<<<>>>> /\ dec.f.kind = "bool") =>
    LET text == dec.value.Boolean[1]
    IN  IF text = <<"1">> \/ LowerText(text) = <<"t", "r", "u", "e">>
          THEN dec.out = [status |-> "ok", err |-> NoErr, val |-> BoolV(TRUE)]
        ELSE IF text = <<"0">> \/ LowerText(text) = <<"f", "a", "l", "s", "e">>
          THEN dec.out = [status |-> "ok", err |-> NoErr, val |-> BoolV(FALSE)]
        ELSE dec.out.status = "error"

\* C13 as amended: a boolean text decodes to true when it is "1", "true",
\* "TRUE" or "True", to false when it is "0", "false", "FALSE" or "False", and
\* every other non-empty text, other spellings of true and false included, is
\* the error "unrecognized value '<text>' for boolean" and leaves the field.
C13_BooleanSpellings ==
  (dec.pc = "done" /\ dec.value.Boolean # <<>> /\ dec.value.Boolean # <<<<>>>> /\ dec.f.kind = "bool") =>
    LET text == dec.value.Boolean[1]
    IN  IF text \in {<<"1">>, <<"t", "r", "u", "e">>, <<"T", "R", "U", "E">>, <<"T", "r", "u", "e">>}
          THEN dec.out = [status |-> "ok", err |-> NoErr, val |-> BoolV(TRUE)]
        ELSE IF text \in {<<"0">>, <<"f", "a", "l", "s", "e">>, <<"F", "A", "L", "S", "E">>, <<"F", "a", "l", "s", "e">>}
          THEN dec.out = [status |-> "ok", err |-> NoErr, val |-> BoolV(FALSE)]
        ELSE dec.out = [status |-> "error",
                        err |-> Errorf("unrecognized value '%s' for boolean", <<text>>),
                        val |-> dec.cur]

\* The spelling tRUE rejected on a field that held true.
C13_Witness ==
  /\ dec.pc = "done"
  /\ dec.value.Boolean = <<<<"t", "R", "U", "E">>>>
  /\ dec.f.kind = "bool"
  /\ dec.cur = BoolV(TRUE)
  /\ dec.out.status = "error"

\* The field member k of the decoded struct value resolves to (0: none), and
\* what the fields hold once the first n members are decoded.
ResolvedField(k) ==
  findFieldByNameOrTag(dec.f.fields, structMemberToFieldName(dec.value.Struct[k].Name))

FieldsAfter(n) ==
  [i \in 1..Len(dec.f.fields) |->
     IF \E k \in 1..n : ResolvedField(k) = i
     THEN StringV(MemberText(CHOOSE k \in 1..n :
                               ResolvedField(k) = i /\ \A l \in (k + 1)..n : ResolvedField(l) # i))
     ELSE dec.cur.vals[i]]

UnresolvedMembers == {k \in 1..Len(dec.value.Struct) : ResolvedField(k) = 0}

\* C14: without skipUnknownFields the first member that resolves to no field
\* ends decoding with the error "cannot find field '<name>' on struct"; with
\* skipUnknownFields such a member is passed over without an error and every
\* other member, before or after it, is decoded into its field.
C14_UnknownMemberFailsUnlessSkipped ==
  (dec.pc = "done" /\ dec.value.Struct # <<>>) =>
    IF UnresolvedMembers = {} \/ dec.d.skipUnknownFields
    THEN dec.out = [status |-> "ok", err |-> NoErr, val |-> StructV(FieldsAfter(Len(dec.value.Struct)))]
    ELSE LET k == CHOOSE u \in UnresolvedMembers : \A o \in UnresolvedMembers : u <= o
         IN  dec.out = [status |-> "error",
                        err |-> Errorf("cannot find field '%s' on struct",
                                       <<structMemberToFieldName(dec.value.Struct[k].Name)>>),
                        val |-> StructV(FieldsAfter(k - 1))]

\* An unknown member skipped and the member after it decoded.
C14_Witness ==
  /\ dec.pc = "done"
  /\ dec.d.skipUnknownFields
  /\ Len(dec.value.Struct) = 2
  /\ ResolvedField(1) = 0
  /\ ResolvedField(2) # 0
  /\ dec.out.status = "ok"
  /\ dec.out.val.vals[ResolvedField(2)] = StringV(MemberText(2))

\* C15 as claimed: a member whose wire name is the rename tag of a field is
\* decoded into that field, whatever characters the name holds.
C15_RenameTagSelectsField ==
  (/\ dec.pc = "done"
   /\ Len(dec.value.Struct) = 1
   /\ \E i \in 1..Len(dec.f.fields) : getFieldNameFromTag(dec.f.fields[i]) = dec.value.Struct[1].Name) =>
    LET i == CHOOSE j \in 1..Len(dec.f.fields) :
               /\ getFieldNameFromTag(dec.f.fields[j]) = dec.value.Struct[1].Name
               /\ \A l \in 1..(j - 1) : getFieldNameFromTag(dec.f.fields[l]) # dec.value.Struct[1].Name
    IN  /\ dec.out.status = "ok"
        /\ dec.out.val.vals[i] = StringV(MemberText(1))

\* C16 as claimed: a field tagged "-" is never written by a member of its
\* own name; when another field claims that name by its tag, that field is.
C16_SkippedFieldNeverSelected ==
  (dec.pc = "done" /\ Len(dec.value.Struct) = 1) =>
    \A i \in 1..Len(dec.f.fields) :
      (/\ dec.f.fields[i].tag = <<"-">>
       /\ dec.f.fields[i].name = structMemberToFieldName(dec.value.Struct[1].Name)) =>
        /\ dec.out.val.vals[i] = dec.cur.vals[i]
        /\ \A j \in 1..Len(dec.f.fields) :
             (/\ getFieldNameFromTag(dec.f.fields[j]) = dec.f.fields[i].name
              /\ \A l \in 1..(j - 1) : getFieldNameFromTag(dec.f.fields[l]) # dec.f.fields[i].name) =>
               dec.out.val.vals[j] = StringV(MemberText(1))

\* The positions of the letters and digits of the normalized name, and the
\* character each gives.
KeptPositions == {i \in 1..Len(dec.name) : IsLower(dec.name[i]) \/ IsUpper(dec.name[i]) \/ dec.name[i] = "2"}

KeptCharacter(i) ==
  IF IsLower(dec.name[i]) /\ (i = 1 \/ dec.name[i - 1] \in {"_", " ", "-", "."})
  THEN UpperLetters[CHOOSE k \in 1..Len(LowerLetters) : LowerLetters[k] = dec.name[i]]
  ELSE dec.name[i]

\* C17: the normalized name is made of the letters and digits of the member
\* name in their order, a lower-case letter being upper-cased when it is the
\* first character or follows a separator ('_', ' ', '-', '.') and every other
\* letter and digit kept as it is; myField, my_field and my_Field all give
\* MyField.
C17_MemberNameNormalization ==
  dec.pc = "done" =>
    /\ Len(dec.out) = Cardinality(KeptPositions)
    /\ \A i \in KeptPositions :
         dec.out[Cardinality({j \in KeptPositions : j <= i})] = KeptCharacter(i)
    /\ dec.name \in {<<"m", "y", "F", "i", "e", "l", "d">>, <<"m", "y", "_", "f", "i", "e", "l", "d">>, <<"m", "y", "_", "F", "i", "e", "l", "d">>}
         => dec.out = <<"M", "y", "F", "i", "e", "l", "d">>

C17_Witness == dec.pc = "done" /\ dec.name = <<"m", "y", "_", "f", "i", "e", "l", "d">> /\ dec.out = <<"M", "y", "F", "i", "e", "l", "d">>

\* C18: encoding a record argument gives exactly one parameter per exported
\* field, in the order the type declares them whatever the order in which the
\* instance was populated; unexported fields give no parameter and no error;
\* no argument, or a record without an exported field, gives a call without a
\* params element.
C18_OneParamPerExportedField ==
  (dec.pc = "done" /\ dec.args.t \in {"nil", "struct"}) =>
    /\ dec.err = NoErr
    /\ Len(dec.out) = 1
    /\ dec.out[1].methodName = dec.methodName
    /\ IF dec.args.t = "nil" \/ NumExported(dec.args.type) = 0
       THEN dec.out[1].params = <<>>
       ELSE /\ Len(dec.out[1].params) = 1
            /\ Len(dec.out[1].params[1]) = NumExported(dec.args.type)
            /\ \A j \in 1..NumExported(dec.args.type) :
                 LET i == ExportedIndex(dec.args.type, j)
                 IN  dec.out[1].params[1][j] = encodeValue(dec.args.vals[i], dec.args.type[i], <<>>)

C18_Witness ==
  /\ dec.pc = "done"
  /\ dec.args.t = "struct"
  /\ Len(dec.args.type) = 2
  /\ dec.populated = <<2, 1>>
  /\ ~dec.args.type[1].exported
  /\ dec.args.type[2].kind = "bool"
  /\ dec.out[1].params = <<<<Element("boolean", <<"1">>, <<>>)>>>>

\* C19: encoding a map with string keys given without a struct around it gives
\* exactly one parameter, a struct whose members are the entries of the map,
\* each once and in any order; a map with another key type gives an encode
\* error and no parameter.
C19_BareMapIsOneStructParam ==
  (dec.pc = "done" /\ dec.args.t = "map") =>
    IF dec.args.key = "string"
    THEN /\ dec.err = NoErr
         /\ Len(dec.out) = 1
         /\ Len(dec.out[1].params) = 1
         /\ Len(dec.out[1].params[1]) = 1
         /\ LET p == dec.out[1].params[1][1]
            IN  /\ p.tag = "struct"
                /\ Len(p.items) = Cardinality(DOMAIN dec.args.entries)
                /\ \A k \in DOMAIN dec.args.entries :
                     \E i \in 1..Len(p.items) :
                       /\ p.items[i].Name = k
                       /\ p.items[i].Value = encodeValue(dec.args.entries[k], [kind |-> "interface"], <<>>)
    ELSE /\ dec.err = Errorf("unsupported type %s for bare map key, only string keys are supported",
                             <<dec.args.key>>)
         /\ dec.out = <<>>

C19_Witness ==
  /\ dec.pc = "done"
  /\ dec.args.t = "map"
  /\ dec.args.key = "string"
  /\ dec.order = <<Baz, Foo>>
  /\ dec.out[1].params[1][1].items =
       <<Member(Baz, Element("int", <<"1", "2", "3">>, <<>>)),
         Member(Foo, Element("string", <<"b", "a", "r", "2">>, <<>>))>>

\* Two values of a field are equal; two times are equal when they show the
\* same wall clock at the same offset.
SameField(a, b) ==
  IF a.t = "time" /\ b.t = "time" THEN a.wall = b.wall /\ a.offset = b.offset ELSE a = b

\* C20 as claimed: decoding a response built from the values that encoding a
\* record emitted succeeds and gives a record equal to the original field for
\* field, for records of string, integer, boolean, date-time, binary and
\* nested-record fields with or without rename tags.
C20_RoundTrip ==
  dec.pc = "done" =>
    /\ dec.out.status = "ok"
    /\ \A i \in 1..Len(dec.args.type) : SameField(dec.out.v.vals[i], dec.args.vals[i])

\* ------------------------------------------------------------------------
\* NewResponse on one document
\* ------------------------------------------------------------------------

\* Documents with and without a params element of up to MaxParams
\* parameters, with and without a fault element, well-formed or not.
ParseDocs ==
  {Document(wf, ps, f) :
     wf \in BOOLEAN,
     ps \in {<<>>} \cup {<<p>> : p \in SeqsUpTo({IntValue(<<"7">>), StringValue(<<"a">>)}, MaxParams)},
     f \in {<<>>, FaultDoc.fault, FaultDocI4.fault, FaultDocNoCode.fault}}

InitParse ==
  /\ customHeaders = NoHeaders
  /\ userAgent = defaultUserAgent
  /\ CodecInit
  /\ \E doc \in ParseDocs : dec = [pc |-> "call", doc |-> doc, out |-> [err |-> NoErr, resp |-> <<>>]]

\* NewResponse(body)
ParseCall ==
  /\ dec.pc = "call"
  /\ dec' = [dec EXCEPT !.pc = "done", !.out = NewResponse(dec.doc)]
  /\ UNCHANGED <<codecVars, writerVars, readerVars, bodies, closing, closed>>

SpecParse == InitParse /\ [][ParseCall]_vars

\* C21: a Response the parser returns comes from a document with exactly one
\* of the params and fault elements and carries that element and not the
\* other; for a document with both or with neither the parser returns an
\* error and no Response.
C21_ResponseHasOneBranch ==
  dec.pc = "done" =>
    LET hasParams == dec.doc.params # <<>>
        hasFault == dec.doc.fault # <<>>
    IN  /\ dec.out.resp # <<>> =>
             /\ dec.out.err = NoErr
             /\ hasParams # hasFault
             /\ dec.out.resp[1].Fault = dec.doc.fault
             /\ hasParams => dec.out.resp[1].Params = dec.doc.params[1]
             /\ hasFault => dec.out.resp[1].Params = <<>>
        /\ hasParams = hasFault => dec.out.err # NoErr /\ dec.out.resp = <<>>
        /\ dec.out.err # NoErr => dec.out.resp = <<>>

C21_Witness ==
  /\ dec.pc = "done"
  /\ dec.doc.wellFormed
  /\ dec.doc.params # <<>>
  /\ dec.doc.fault # <<>>
  /\ dec.out.err = Errorf("invalid response", <<>>)
  /\ dec.out.resp = <<>>

\* C22: a writer that is posting or has posted its completion signal has
\* committed its entry; from the moment the reader receives an id from ready
\* until it takes the entry, the pending table holds the entry of that id; the
\* lookup never finds the entry missing.
C22_SignalAfterCommit ==
  /\ \A w \in Seqs : wpc[w] \in {"post", "blocked"} =>
       w \in DOMAIN pending /\ pending[w].Seq = w
  /\ rdpc \in {"recv", "locked"} =>
       /\ rseq \in DOMAIN pending
       /\ pending[rseq].Seq = rseq
       /\ wpc[rseq] = "returned"
  /\ rdpc = "process" => rcall # NoCall /\ rcall.Seq = rseq
  /\ rdpc # "panic"

C22_Witness ==
  /\ rdpc = "recv"
  /\ rseq = 2
  /\ mutex = 1
  /\ DOMAIN pending = {2}

\* The calls whose completion signal the reader has received.
Signalled == {w \in Seqs : wpc[w] = "returned" /\ bodies[w] # "none"}

\* C23: the pending table changes only by the commit of a WriteRequest, which
\* adds the entry of its own id, absent until then, and by the header read
\* that received that id, which removes it; an id is received from ready only
\* from the writer of that id, once, with its entry in the table; and once
\* the header read has taken the entry the table holds no entry for the id
\* again.
C23_EntryOnceSignalOnce ==
  /\ [](\A w \in Seqs :
          /\ w \in DOMAIN pending => wpc[w] \in {"post", "blocked", "returned"}
          /\ w \in DOMAIN pending /\ w \in Signalled => rseq = w /\ rdpc \in {"recv", "locked"}
          /\ rdpc = "process" => rseq \notin DOMAIN pending
          /\ bodies[w] \in {"closed", "read, closed"} => w \notin DOMAIN pending /\ w \in Signalled)
  /\ [][/\ pending' # pending =>
             \/ \E w \in Seqs :
                  /\ wpc[w] = "commit" /\ wpc'[w] = "post"
                  /\ w \notin DOMAIN pending
                  /\ DOMAIN pending' = DOMAIN pending \cup {w}
                  /\ \A s \in DOMAIN pending : pending'[s] = pending[s]
                  /\ pending'[w].Seq = w
             \/ /\ rdpc = "locked" /\ rdpc' = "process"
                /\ rseq \in DOMAIN pending
                /\ DOMAIN pending' = DOMAIN pending \ {rseq}
                /\ \A s \in DOMAIN pending' : pending'[s] = pending[s]
                /\ rcall' = pending[rseq]
        /\ (wpc' # wpc /\ Signalled' # Signalled) =>
             /\ rdpc \in {"idle", "select"} /\ rdpc' = "recv"
             /\ rseq' \notin Signalled
             /\ Signalled' = Signalled \cup {rseq'}
             /\ wpc[rseq'] \in {"post", "blocked"}
             /\ rseq' \in DOMAIN pending
       ]_vars

C23_Witness ==
  /\ bodies[1] = "read, closed"
  /\ 1 \notin DOMAIN pending
  /\ rdpc = "process"
  /\ rseq = 2
  /\ DOMAIN pending = {}
  /\ Signalled = {1, 2}

\* ------------------------------------------------------------------------
\* The codec under the Client: rpc.NewClientWithCodec(codec)
\* ------------------------------------------------------------------------

\* Servers that cannot be reached, answer with a fault, or answer 200 with a
\* params document.
ClientResults(w) ==
  {d \in HTTPResults(w) :
     \/ d.err # NoErr
     \/ d.res = HTTPResponse(299, FALSE, FaultDoc)
     \/ d.res = HTTPResponse(200, FALSE, ParamsDoc(SeqText(w)))}

HTTPDoneClient(w) == HTTPDoneWith(w, ClientResults(w))

\* The replies callers pass to Call: a record the params document fits, and
\* one with a field too many.
Replies ==
  {<<Record(<<Field(TRUE, "int")>>)>>, <<Record(<<Field(TRUE, "int"), Field(TRUE, "int")>>)>>}

\* The receive loop of the rpc.Client has ended: ReadResponseHeader or
\* ReadResponseBody returned an error.
ReaderStopped == rerr # NoErr \/ (rrb.called /\ rrb.err # NoErr)

\* The loop's call of ReadResponseHeader: at its start and after each body.
InputHeader ==
  /\ ~ReaderStopped
  /\ resp = ZeroResp \/ rrb.called
  /\ ReadResponseHeader

\* The loop's call of ReadResponseBody after a header: with nil when the
\* header carries an error, with the caller's reply otherwise.
InputBody ==
  /\ ~ReaderStopped
  /\ resp # ZeroResp
  /\ ~rrb.called
  /\ IF resp.Error # NoErr
       THEN ReadResponseBodyInto(<<>>)
       ELSE \E v \in Replies : ReadResponseBodyInto(v)

NextClient ==
  \/ \E w \in Seqs : WriteRequest(w)
  \/ \E w \in Seqs : HTTPDoneClient(w)
  \/ \E w \in Seqs : WriterLock(w)
  \/ \E w \in Seqs : WriterCommit(w)
  \/ \E w \in Seqs : WriterPost(w)
  \/ InputHeader
  \/ ReaderLock
  \/ ReaderTake
  \/ ReaderProcess
  \/ ReaderClosed
  \/ InputBody
  \/ Close

\* The steps of the goroutine in WriteRequest for call w, once it was called.
WriterStep(w) == HTTPDoneClient(w) \/ WriterLock(w) \/ WriterCommit(w) \/ WriterPost(w)

\* The steps of the goroutine of the receive loop.
ReaderStep == InputHeader \/ ReaderLock \/ ReaderTake \/ ReaderProcess \/ ReaderClosed \/ InputBody

\* Every goroutine that can take a step is scheduled: an exchange that was
\* started ends, the steps of WriteRequest and of the receive loop are taken.
\* Callers are free to make no further call of WriteRequest or Close.
ClientFairness ==
  /\ \A w \in Seqs : WF_vars(WriterStep(w))
  /\ WF_vars(ReaderStep)

ClientSpec == Init /\ [][NextClient]_vars /\ ClientFairness

\* C24: a call of Close changes no WriteRequest, exchange, entry or body; a
\* WriteRequest whose exchange ends, before or after a Close, goes on as the
\* result of the exchange alone decides and its commit stores its entry; once
\* the shutdown signal was delivered to the receive loop no entry leaves the
\* pending table.
C24_CloseLeavesExchangesInFlight ==
  [][/\ closing' + closed' # closing + closed =>
          /\ wpc' = wpc /\ whttp' = whttp /\ wret' = wret
          /\ pending' = pending /\ bodies' = bodies
     /\ \A w \in Seqs :
          /\ wpc[w] = "http" /\ wpc'[w] # "http" =>
               /\ whttp'[w] \in ClientResults(w)
               /\ wpc'[w] = AfterDo(whttp'[w]).pc
               /\ wret'[w] = AfterDo(whttp'[w]).ret
          /\ wpc[w] = "lock" => wpc'[w] \in {"lock", "commit"}
          /\ wpc[w] = "commit" /\ wpc'[w] # "commit" =>
               /\ wpc'[w] = "post"
               /\ w \in DOMAIN pending'
               /\ pending'[w] = PendingEntry(wreq[w], whttp[w].res).call
     /\ closed > 0 =>
          /\ \A s \in DOMAIN pending : s \in DOMAIN pending' /\ pending'[s] = pending[s]
          /\ \A w \in Seqs : wpc[w] = "blocked" => wpc'[w] = "blocked"
    ]_vars

C24_Witness ==
  /\ closed = 1
  /\ rerr = ErrClosed
  /\ wpc[1] = "blocked"
  /\ 1 \in DOMAIN pending
  /\ pending[1].httpResponse = HTTPResponse(200, FALSE, ParamsDoc(SeqText(1)))
  /\ wpc[2] = "http"

\* The calls whose rpcCall, and with it the HTTP response and its body, is
\* held by a WriteRequest, by the pending table or by the header read at work.
BodyHeld ==
  {w \in Seqs : \/ wpc[w] \in {"lock", "commit"}
                \/ w \in DOMAIN pending
                \/ rcall.Seq = w}

\* C25: a call has a response body exactly when its exchange gave a response;
\* the body is open exactly while the call waits for, or is in, the header
\* read that consumes it; that header read ends with the body closed whether
\* it ends in a bad status, a read error, a parse error, a fault or a success,
\* and from then on neither the pending table nor the reader holds the call.
C25_BodyClosedByHeaderRead ==
  /\ \A w \in Seqs :
       /\ bodies[w] = "none" <=> \/ wpc[w] \in {"idle", "http"}
                                 \/ wpc[w] = "returned" /\ wret[w] # NoErr
       /\ bodies[w] = "open" <=> w \in BodyHeld
       /\ bodies[w] \in {"none", "open", "closed", "read, closed"}
       /\ bodies[w] = "closed" => BadStatus(whttp[w].res.StatusCode)
  /\ rdpc \in {"idle", "select", "shutdown", "woken"} => rcall = NoCall
  /\ resp.Seq # 0 => bodies[resp.Seq] \in {"closed", "read, closed"}

C25_Witness ==
  /\ rdpc = "idle"
  /\ resp.Seq = 1
  /\ resp.Error = Errorf("XML syntax error", <<>>)
  /\ bodies[1] = "read, closed"
  /\ bodies[2] = "open"
  /\ DOMAIN pending = {2}

\* ------------------------------------------------------------------------
\* findFieldByNameOrTag on records whose fields share tag names
\* ------------------------------------------------------------------------

\* The most fields of such a record.
MaxClaimants == 3

\* The name of the field declared at position i.
FieldNameAt(i) == <<<<"A">>, <<"B">>, <<"C">>, <<"D">>, <<"E">>>>[i]

\* Tags of a field: none, a rename, the skip marker, a rename to the name of
\* the second field.
ClaimTags == {<<>>, <<"x">>, <<"-">>, <<"B">>}

\* Records of up to MaxClaimants exported string fields with any of the tags.
ClaimTypes ==
  {[i \in DOMAIN tags |-> StructField(FieldNameAt(i), tags[i], TRUE, "string")] :
     tags \in UNION {[1..m -> ClaimTags] : m \in 1..MaxClaimants}}

InitFind ==
  /\ customHeaders = NoHeaders
  /\ userAgent = defaultUserAgent
  /\ CodecInit
  /\ \E type \in ClaimTypes, fName \in {<<"x">>, <<"B">>, <<"A">>, <<"y">>} :
       dec = [pc |-> "call", type |-> type, fName |-> fName, out |-> 0]

\* findFieldByNameOrTag(field, fName)
FindCall ==
  /\ dec.pc = "call"
  /\ dec' = [dec EXCEPT !.pc = "done", !.out = findFieldByNameOrTag(dec.type, dec.fName)]
  /\ UNCHANGED <<codecVars, writerVars, readerVars, bodies, closing, closed>>

SpecFind == InitFind /\ [][FindCall]_vars

\* The positions of the fields whose tag gives the name fName.
Claimants == {i \in 1..Len(dec.type) : getFieldNameFromTag(dec.type[i]) = dec.fName}

\* C26 as claimed: when several fields claim the wire name through their
\* tags, the field declared last among them is selected.
C26_LastClaimantSelected ==
  dec.pc = "done" /\ Cardinality(Claimants) > 1 =>
    dec.out \in Claimants /\ \A i \in Claimants : i <= dec.out

\* C26 amended: when several fields claim the wire name through their tags,
\* the field declared first among them is selected, also when a field of
\* that very name is declared.
C26_FirstClaimantSelected ==
  dec.pc = "done" /\ Cardinality(Claimants) > 1 =>
    dec.out \in Claimants /\ \A i \in Claimants : dec.out <= i

C26_Witness ==
  /\ dec.pc = "done"
  /\ Len(dec.type) = 3
  /\ dec.fName = <<"B">>
  /\ Claimants = {1, 3}
  /\ dec.out = 1

\* The header read of call w has ended and its WriteRequest has returned.
Consumed(w) == wpc[w] = "returned" /\ bodies[w] \in {"closed", "read, closed"}

\* The exchange of call w gave a response that no header read has consumed.
Outstanding(w) == wpc[w] \in {"lock", "commit", "post", "blocked"} \/ bodies[w] = "open"

\* C27: the mutex is held by a WriteRequest only for the store into the
\* pending table, never during the exchange or the send on ready, and by the
\* reader only for the lookup; a call is outstanding from the end of its
\* exchange until it is consumed; and every WriteRequest whose exchange gave
\* a response is received by a header read, which ends, and returns, unless
\* the receive loop has ended: as a call is outstanding once and the end of
\* the loop is final, from some point on no call is outstanding while the
\* loop goes on.
C27_CompletedCallsAreConsumed ==
  /\ [](/\ \A w \in Seqs : mutex = w <=> wpc[w] = "commit"
        /\ mutex = ReaderId <=> rdpc = "locked"
        /\ mutex \in Seqs \cup {0, ReaderId}
        /\ \A w \in Seqs : whttp[w].res # NoResponse => Outstanding(w) \/ Consumed(w))
  /\ <>[](\A w \in Seqs : Outstanding(w) => ReaderStopped)

C27_Witness ==
  /\ Consumed(1)
  /\ rdpc = "locked"
  /\ rseq = 2
  /\ closing + closed = 0
  /\ ~ReaderStopped

\* C28 as claimed: every WriteRequest that was called returns, also one whose
\* exchange ends after the codec was closed and the receive loop has ended.
C28_EveryWriteRequestReturns ==
  \A w \in Seqs : (wpc[w] # "idle") ~> (wpc[w] = "returned")

\* C29 as claimed: every call of Close returns: no Close stays blocked on its
\* send, whether or not a header read is parked when it is called, whether or
\* not the receive loop has ended, and whether or not Close was called before.
C29_EveryCloseReturns ==
  \A n \in 1..MaxCloses : (closing = n) ~> (closing < n)

\* C30 as claimed: a ReadResponseBody with a non-nil target that follows a
\* header read decodes only the response of that header's call: when it
\* succeeds, that header carries no error and the target holds the parameter
\* of that call, which echoes its sequence id; after a header that carries an
\* error the target is left as it was.
C30_BodyDecodesLatestHeader ==
  rrb.called /\ rrb.v # <<>> /\ resp.Seq # 0 =>
    /\ rrb.status = "ok" => resp.Error = NoErr /\ rrb.out[1].vals[1] = IntV(resp.Seq)
    /\ resp.Error # NoErr => rrb.out = rrb.v

====
